---- MODULE Spec2Model ----
(***************************************************************************)
(* Model of the phase-3 memory subsystem: PatternStorage (versioned,       *)
(* expiring pattern store over one directory), LearningModel (the label    *)
(* map and life cycle of the classifier) and MemoryStorageSystem (the      *)
(* orchestrator).                                                          *)
(*                                                                         *)
(* Strings that the code inspects character by character (the JSON text    *)
(* that is hashed, pattern ids, file names) are sequences of UTF-16 code   *)
(* units.  Times are counted in days, so the factor 24*60*60*1000 of       *)
(* savePattern is one unit (MsPerDay).  confidence is counted in tenths.   *)
(***************************************************************************)
EXTENDS Integers, Sequences, FiniteSets, TLC

\* ------------------------------------------------------------------------
\* Bounds of the model
\* ------------------------------------------------------------------------
MaxTime == 2
MaxCalls == 3
CfgMaxVersions == 2
CfgExpirationDays == 1
KbMaxItems == 2
KbMaxCalls == 4

\* ------------------------------------------------------------------------
\* JavaScript values
\* ------------------------------------------------------------------------
\* `undefined` for an optional number (expiresAt, config fields); numbers of
\* the model are >= 0.
undefined == -1

\* x ?? y
Nullish(x, y) == IF x = undefined THEN y ELSE x

\* x || y on numbers: 0 is falsy as well as undefined
OrElse(x, y) == IF x = undefined \/ x = 0 THEN y ELSE x

\* truthiness of an optional number
Truthy(x) == x # undefined /\ x # 0

\* UTF-16 code units of the strings used as keys, types and values
CharCodes ==
  [type       |-> <<116,121,112,101>>,
   data       |-> <<100,97,116,97>>,
   metadata   |-> <<109,101,116,97,100,97,116,97>>,
   confidence |-> <<99,111,110,102,105,100,101,110,99,101>>,
   frequency  |-> <<102,114,101,113,117,101,110,99,121>>,
   lastSeen   |-> <<108,97,115,116,83,101,101,110>>,
   tags       |-> <<116,97,103,115>>,
   source     |-> <<115,111,117,114,99,101>>,
   expiresAt  |-> <<101,120,112,105,114,101,115,65,116>>,
   key        |-> <<107,101,121>>,
   value      |-> <<118,97,108,117,101>>,
   updated    |-> <<117,112,100,97,116,101,100>>,
   test       |-> <<116,101,115,116>>,
   behavioral |-> <<98,101,104,97,118,105,111,114,97,108>>,
   temporal   |-> <<116,101,109,112,111,114,97,108>>,
   trigger    |-> <<116,114,105,103,103,101,114>>,
   action     |-> <<97,99,116,105,111,110>>,
   context    |-> <<99,111,110,116,101,120,116>>,
   rain       |-> <<114,97,105,110>>,
   run        |-> <<114,117,110>>,
   sequence   |-> <<115,101,113,117,101,110,99,101>>,
   steps      |-> <<115,116,101,112,115>>,
   category   |-> <<99,97,116,101,103,111,114,121>>,
   items      |-> <<105,116,101,109,115>>,
   colors     |-> <<99,111,108,111,114,115>>,
   sequential |-> <<115,101,113,117,101,110,116,105,97,108>>,
   categorical |-> <<99,97,116,101,103,111,114,105,99,97,108>>,
   a          |-> <<97>>,
   b          |-> <<98>>,
   c          |-> <<99>>,
   ui         |-> <<117,105>>,
   rule       |-> <<114,117,108,101>>,
   e          |-> <<101>>,
   TEST       |-> <<84,69,83,84>>,
   versions   |-> <<118,101,114,115,105,111,110,115>>]
   @@ ("" :> <<>>)

\* ------------------------------------------------------------------------
\* JSON.stringify of a save candidate
\* ------------------------------------------------------------------------
RECURSIVE NumberToString(_)
NumberToString(n) ==
  IF n < 10 THEN <<48 + n>>
  ELSE NumberToString(n \div 10) \o <<48 + (n % 10)>>

Quote(s) == <<34>> \o CharCodes[s] \o <<34>>

RECURSIVE JoinComma(_)
JoinComma(ss) ==
  IF ss = <<>> THEN <<>>
  ELSE IF Len(ss) = 1 THEN ss[1]
  ELSE ss[1] \o <<44>> \o JoinComma(Tail(ss))

Member(k, v) == Quote(k) \o <<58>> \o v

JsonObject(members) == <<123>> \o JoinComma(members) \o <<125>>

JsonArray(items) == <<91>> \o JoinComma(items) \o <<93>>

\* data is a list of entries in insertion order: <<key, string value>>, or
\* <<key, "array", strings>> for a value that is an array of strings
IsArray(entry) == Len(entry) = 3

JsonData(d) ==
  LET JsonValue(entry) ==
        IF IsArray(entry) THEN JsonArray([i \in 1..Len(entry[3]) |-> Quote(entry[3][i])])
        ELSE Quote(entry[2])
  IN  JsonObject([i \in 1..Len(d) |-> Member(d[i][1], JsonValue(d[i]))])

\* ------------------------------------------------------------------------
\* PatternStorage.hashData: 32-bit rolling hash, kept as two 16-bit halves
\* <<hi, lo>> of the two's complement word
\* ------------------------------------------------------------------------

\* for (let i = 0; i < str.length; i++) { ... } over str[from..to], left to
\* right.  The range is halved, and the left half reduced to a value before
\* the right half starts, only to keep the evaluation shallow.
RECURSIVE HashLoop(_, _, _, _)
HashLoop(str, from, to, hash) ==
  LET \* hash = ((hash << 5) - hash) + char; hash = hash & hash
      HashStep(h, char) ==
        LET lo == 31 * h[2] + char
            hi == 31 * h[1] + (lo \div 65536)
        IN  <<hi % 65536, lo % 65536>>
  IN  IF from > to THEN hash
      ELSE IF from = to THEN HashStep(hash, str[from])
      ELSE LET mid == (from + to) \div 2
               left == HashLoop(str, from, mid, hash)
           IN  IF left[1] >= 0 THEN HashLoop(str, mid + 1, to, left) ELSE left

\* Math.abs of the signed word
MathAbs(h) ==
  IF h[1] < 32768 THEN h
  ELSE IF h[2] = 0 THEN <<65536 - h[1], 0>>
  ELSE <<65535 - h[1], 65536 - h[2]>>

hashData(pattern) ==
  LET \* JSON.stringify(pattern) of PatternStorage.hashData: every own property of
      \* the candidate, an undefined expiresAt being left out
      JSONstringify(pattern0) ==
        LET JsonMetadata(m) ==
              LET \* a confidence in tenths prints as 0, 0.1 .. 0.9, 1
                  ConfidenceToString(c) ==
                    IF c % 10 = 0 THEN NumberToString(c \div 10)
                    ELSE NumberToString(c \div 10) \o <<46>> \o NumberToString(c % 10)
              IN  JsonObject(<<Member("confidence", ConfidenceToString(m.confidence)),
                               Member("frequency", NumberToString(m.frequency)),
                               Member("lastSeen", NumberToString(m.lastSeen)),
                               Member("tags", JsonArray([i \in 1..Len(m.tags) |-> Quote(m.tags[i])])),
                               Member("source", Quote(m.source))>>)
        IN  JsonObject(<<Member("type", Quote(pattern0.type)),
                         Member("data", JsonData(pattern0.data)),
                         Member("metadata", JsonMetadata(pattern0.metadata))>>
                       \o (IF pattern0.expiresAt = undefined THEN <<>>
                           ELSE <<Member("expiresAt", NumberToString(pattern0.expiresAt))>>))
      HexDigit(d) == IF d < 10 THEN 48 + d ELSE 87 + d
      RECURSIVE HexString(_)
      HexString(n0) ==
        IF n0 < 16 THEN <<HexDigit(n0)>>
        ELSE HexString(n0 \div 16) \o <<HexDigit(n0 % 16)>>
      \* Number.prototype.toString(16) of a word given by its halves
      ToString16(h) ==
        LET Hex4(n) == <<HexDigit(n \div 4096), HexDigit((n \div 256) % 16),
                         HexDigit((n \div 16) % 16), HexDigit(n % 16)>>
        IN  IF h[1] = 0 THEN HexString(h[2]) ELSE HexString(h[1]) \o Hex4(h[2])
  IN  ToString16(MathAbs(HashLoop(JSONstringify(pattern), 1, Len(JSONstringify(pattern)), <<0, 0>>)))

generatePatternId(pattern) == CharCodes[pattern.type] \o <<45>> \o hashData(pattern)

\* ------------------------------------------------------------------------
\* Inputs of the model
\* ------------------------------------------------------------------------
Value == << <<"key", "value">> >>

Meta(confidence) ==
  [confidence |-> confidence, frequency |-> 1, lastSeen |-> 1,
   tags |-> <<"test">>, source |-> "test"]

\* Omit<Pattern, 'id' | 'createdAt' | 'updatedAt'>: the candidate of the
\* tests, and its variants in one field: metadata, expiresAt (day 1) or type
Candidate ==
  [type |-> "behavioral", data |-> Value, metadata |-> Meta(9), expiresAt |-> undefined]

Candidates ==
  {Candidate,
   [Candidate EXCEPT !.metadata = Meta(5)],
   [Candidate EXCEPT !.expiresAt = 1]}

\* the candidates given to MemoryStorageSystem.addPattern: two types that
\* have an extractor, and one that has none
SystemCandidates ==
  {Candidate,
   [Candidate EXCEPT !.metadata = Meta(5)],
   [Candidate EXCEPT !.type = "temporal"],
   [Candidate EXCEPT !.type = "test"]}

\* generatePatternId over the candidates of the model, computed once; the
\* type of the last one gives an id that starts with 'versions-'
PatternIds ==
  [c \in Candidates \cup SystemCandidates \cup {[Candidate EXCEPT !.type = "versions"]} |->
     generatePatternId(c)]

NoUpdate == [data |-> <<>>, metadata |-> [f \in {} |-> 0], expiresAt |-> undefined]

\* the update of the tests, with a change of metadata
DataUpdate == [NoUpdate EXCEPT !.data = << << <<"key", "updated">> >> >>, !.metadata = [confidence |-> 7]]

Updates == {DataUpdate, [NoUpdate EXCEPT !.expiresAt = 1]}

\* ------------------------------------------------------------------------
\* Map<string, Pattern> (insertion ordered) and Map<string, PatternVersion[]>
\* ------------------------------------------------------------------------
MapHas(m, id) == \E i \in 1..Len(m) : m[i].id = id

MapGet(m, id) == m[CHOOSE i \in 1..Len(m) : m[i].id = id]

MapSet(m, p) ==
  IF MapHas(m, p.id)
  THEN [i \in 1..Len(m) |-> IF m[i].id = p.id THEN p ELSE m[i]]
  ELSE Append(m, p)

MapDelete(m, id) == SelectSeq(m, LAMBDA p : p.id # id)

MapKeys(m) == {m[i].id : i \in 1..Len(m)}

FnSet(f, k, v) == [x \in DOMAIN f \cup {k} |-> IF x = k THEN v ELSE f[x]]

FnDelete(f, k) == [x \in DOMAIN f \ {k} |-> f[x]]

EmptyFn == [x \in {} |-> 0]

\* ------------------------------------------------------------------------
\* PatternStorage
\*   a store s is [config, initialized, patterns, versions, files]; a call
\*   yields [s, threw, ret], ret being a list: <<>> for null or void
\* ------------------------------------------------------------------------
DefaultMaxVersions == 10
MsPerDay == 1

Ok(s, ret) == [s |-> s, threw |-> FALSE, ret |-> ret]

Throw(s) == [s |-> s, threw |-> TRUE, ret |-> <<>>]

\* constructor(config?: Partial<PatternStorageConfig>) over a directory
constructor(partial, files) ==
  [config |-> [maxVersions |-> OrElse(partial.maxVersions, DefaultMaxVersions),
               defaultExpirationDays |-> OrElse(partial.defaultExpirationDays, 30)],
   initialized |-> FALSE,
   patterns |-> <<>>,
   versions |-> EmptyFn,
   files |-> files]

\* `${id}.json`
getPatternFilePath(id) == id \o <<46,106,115,111,110>>

\* `versions-${id}.json`
getVersionsFilePath(id) == <<118,101,114,115,105,111,110,115,45>> \o id \o <<46,106,115,111,110>>

persistPattern(s, pattern) ==
  LET PatternFile(p) == [kind |-> "pattern", json |-> p]
  IN  [s EXCEPT !.files = FnSet(@, getPatternFilePath(pattern.id), PatternFile(pattern))]

persistVersions(s, patternId, vs) ==
  LET VersionsFile(vs0) == [kind |-> "versions", json |-> vs0]
  IN  [s EXCEPT !.files = FnSet(@, getVersionsFilePath(patternId), VersionsFile(vs))]

\* createVersion trimming the newest version instead of the oldest
createVersionPop(s, pattern, t) ==
  LET vs == IF pattern.id \in DOMAIN s.versions THEN s.versions[pattern.id] ELSE <<>>
      nextVersion == Len(vs) + 1
      version == [patternId |-> pattern.id, version |-> nextVersion,
                  data |-> pattern.data, metadata |-> pattern.metadata,
                  timestamp |-> t]
      pushed == Append(vs, version)
      kept == IF Len(pushed) > s.config.maxVersions
              THEN SubSeq(pushed, 1, Len(pushed) - 1) ELSE pushed
  IN  persistVersions([s EXCEPT !.versions = FnSet(@, pattern.id, kept)], pattern.id, kept)

createVersion(s, pattern, t) ==
  LET vs == IF pattern.id \in DOMAIN s.versions THEN s.versions[pattern.id] ELSE <<>>
      nextVersion == Len(vs) + 1
      version == [patternId |-> pattern.id, version |-> nextVersion,
                  data |-> pattern.data, metadata |-> pattern.metadata,
                  timestamp |-> t]
      pushed == Append(vs, version)
      kept == IF Len(pushed) > s.config.maxVersions THEN Tail(pushed) ELSE pushed
  IN  persistVersions([s EXCEPT !.versions = FnSet(@, pattern.id, kept)], pattern.id, kept)

\* savePattern overwriting an existing record without a snapshot
savePatternNoVersion(s, pattern, t) ==
  IF ~s.initialized THEN Throw(s)
  ELSE
    LET id == PatternIds[pattern]
        expiresAt == Nullish(pattern.expiresAt,
                             t + s.config.defaultExpirationDays * MsPerDay)
        newPattern == [id |-> id, type |-> pattern.type, data |-> pattern.data,
                       metadata |-> pattern.metadata,
                       createdAt |-> t, updatedAt |-> t, expiresAt |-> expiresAt]
        s2 == [s EXCEPT !.patterns = MapSet(@, newPattern)]
    IN  Ok(persistPattern(s2, newPattern), <<newPattern>>)

savePattern(s, pattern, t) ==
  IF ~s.initialized THEN Throw(s)
  ELSE
    LET id == PatternIds[pattern]
        expiresAt == Nullish(pattern.expiresAt,
                             t + s.config.defaultExpirationDays * MsPerDay)
        newPattern == [id |-> id, type |-> pattern.type, data |-> pattern.data,
                       metadata |-> pattern.metadata,
                       createdAt |-> t, updatedAt |-> t, expiresAt |-> expiresAt]
        s1 == IF MapHas(s.patterns, id)
              THEN createVersion(s, MapGet(s.patterns, id), t) ELSE s
        s2 == [s1 EXCEPT !.patterns = MapSet(@, newPattern)]
    IN  Ok(persistPattern(s2, newPattern), <<newPattern>>)

\* deletePattern leaving the version history behind
deletePatternKeepsVersions(s, id) ==
  IF ~s.initialized THEN Throw(s)
  ELSE IF ~MapHas(s.patterns, id) THEN Ok(s, <<FALSE>>)
  ELSE Ok([s EXCEPT !.patterns = MapDelete(@, id),
                    !.files = FnDelete(@, getPatternFilePath(id))],
          <<TRUE>>)

deletePattern(s, id) ==
  IF ~s.initialized THEN Throw(s)
  ELSE IF ~MapHas(s.patterns, id) THEN Ok(s, <<FALSE>>)
  ELSE Ok([s EXCEPT !.patterns = MapDelete(@, id),
                        !.versions = FnDelete(@, id),
                        !.files = FnDelete(FnDelete(@, getPatternFilePath(id)),
                                           getVersionsFilePath(id))],
              <<TRUE>>)

\* pattern.expiresAt && now > pattern.expiresAt
Expired(pattern, t) == Truthy(pattern.expiresAt) /\ t > pattern.expiresAt

getPattern(s, id, t) ==
  IF ~s.initialized THEN Throw(s)
  ELSE IF ~MapHas(s.patterns, id) THEN Ok(s, <<>>)
  ELSE IF Expired(MapGet(s.patterns, id), t)
       THEN LET d == deletePattern(s, id)
            IN  IF d.threw THEN d ELSE Ok(d.s, <<>>)
  ELSE Ok(s, <<MapGet(s.patterns, id)>>)

\* { ...pattern.metadata, ...update.metadata }
Spread(metadata, partial) ==
  [f \in DOMAIN metadata |-> IF f \in DOMAIN partial THEN partial[f] ELSE metadata[f]]

\* updatePattern taking the snapshot after the update is applied
updatePatternSnapshotAfter(s, id, update, t) ==
  IF ~s.initialized THEN Throw(s)
  ELSE IF ~MapHas(s.patterns, id) THEN Ok(s, <<>>)
  ELSE
    LET pattern == MapGet(s.patterns, id)
        updatedPattern ==
          [pattern EXCEPT
             !.data = IF update.data = <<>> THEN pattern.data ELSE update.data[1],
             !.metadata = Spread(pattern.metadata, update.metadata),
             !.expiresAt = Nullish(update.expiresAt, pattern.expiresAt),
             !.updatedAt = t]
        s1 == createVersion(s, updatedPattern, t)
        s2 == [s1 EXCEPT !.patterns = MapSet(@, updatedPattern)]
    IN  Ok(persistPattern(s2, updatedPattern), <<updatedPattern>>)

updatePattern(s, id, update, t) ==
  IF ~s.initialized THEN Throw(s)
  ELSE IF ~MapHas(s.patterns, id) THEN Ok(s, <<>>)
  ELSE
    LET pattern == MapGet(s.patterns, id)
        s1 == createVersion(s, pattern, t)
        updatedPattern ==
          [pattern EXCEPT
             !.data = IF update.data = <<>> THEN pattern.data ELSE update.data[1],
             !.metadata = Spread(pattern.metadata, update.metadata),
             !.expiresAt = Nullish(update.expiresAt, pattern.expiresAt),
             !.updatedAt = t]
        s2 == [s1 EXCEPT !.patterns = MapSet(@, updatedPattern)]
    IN  Ok(persistPattern(s2, updatedPattern), <<updatedPattern>>)

getPatternVersions(s, id) ==
  IF ~s.initialized THEN Throw(s)
  ELSE Ok(s, IF id \in DOMAIN s.versions THEN s.versions[id] ELSE <<>>)

\* versions.find(v => v.version === version): the first match
Find(vs, version) ==
  IF \E i \in 1..Len(vs) : vs[i].version = version
  THEN <<vs[CHOOSE i \in 1..Len(vs) :
               /\ vs[i].version = version
               /\ \A j \in 1..(i - 1) : vs[j].version # version]>>
  ELSE <<>>

\* restorePattern with the snapshot of the current pattern taken before the
\* version is looked up: a restore of a version that is not in the history
\* creates a version
restorePatternSnapshotFirst(s, id, version, t) ==
  IF ~s.initialized THEN Throw(s)
  ELSE IF id \notin DOMAIN s.versions \/ s.versions[id] = <<>> THEN Ok(s, <<>>)
  ELSE
    LET hasCurrent == MapHas(s.patterns, id)
        s1 == IF hasCurrent THEN createVersion(s, MapGet(s.patterns, id), t) ELSE s
    IN  IF Find(s.versions[id], version) = <<>> THEN Ok(s1, <<>>)
        ELSE
          LET versionData == Find(s.versions[id], version)[1]
              restoredPattern ==
                [id |-> id,
                 type |-> IF hasCurrent THEN MapGet(s.patterns, id).type ELSE "unknown",
                 data |-> versionData.data,
                 metadata |-> versionData.metadata,
                 createdAt |-> IF hasCurrent THEN OrElse(MapGet(s.patterns, id).createdAt, t) ELSE t,
                 updatedAt |-> t,
                 expiresAt |-> IF hasCurrent THEN MapGet(s.patterns, id).expiresAt ELSE undefined]
              s2 == [s1 EXCEPT !.patterns = MapSet(@, restoredPattern)]
          IN  Ok(persistPattern(s2, restoredPattern), <<restoredPattern>>)

restorePattern(s, id, version, t) ==
  IF ~s.initialized THEN Throw(s)
  ELSE IF id \notin DOMAIN s.versions \/ s.versions[id] = <<>> THEN Ok(s, <<>>)
  ELSE IF Find(s.versions[id], version) = <<>> THEN Ok(s, <<>>)
  ELSE
    LET versionData == Find(s.versions[id], version)[1]
        hasCurrent == MapHas(s.patterns, id)
        s1 == IF hasCurrent THEN createVersion(s, MapGet(s.patterns, id), t) ELSE s
        restoredPattern ==
          [id |-> id,
           type |-> IF hasCurrent THEN MapGet(s.patterns, id).type ELSE "unknown",
           data |-> versionData.data,
           metadata |-> versionData.metadata,
           createdAt |-> IF hasCurrent THEN OrElse(MapGet(s.patterns, id).createdAt, t) ELSE t,
           updatedAt |-> t,
           expiresAt |-> IF hasCurrent THEN MapGet(s.patterns, id).expiresAt ELSE undefined]
        s2 == [s1 EXCEPT !.patterns = MapSet(@, restoredPattern)]
    IN  Ok(persistPattern(s2, restoredPattern), <<restoredPattern>>)

queryPatterns(s, query, t) ==
  LET \* PatternQuery: type "" and numbers `undefined` stand for absent criteria
      QueryMatches(pattern, query0, t0) ==
        /\ ~(query0.notExpired /\ Expired(pattern, t0))
        /\ ~(query0.type # "" /\ pattern.type # query0.type)
        /\ \A i \in 1..Len(query0.tags) :
              \E j \in 1..Len(pattern.metadata.tags) : pattern.metadata.tags[j] = query0.tags[i]
        /\ ~(query0.minConfidence # undefined /\ pattern.metadata.confidence < query0.minConfidence)
        /\ ~(query0.minFrequency # undefined /\ pattern.metadata.frequency < query0.minFrequency)
        /\ ~(Truthy(query0.createdAfter) /\ pattern.createdAt < query0.createdAfter)
        /\ ~(Truthy(query0.createdBefore) /\ pattern.createdAt > query0.createdBefore)
  IN  IF ~s.initialized THEN Throw(s)
      ELSE Ok(s, SelectSeq(s.patterns, LAMBDA p : QueryMatches(p, query, t)))

RECURSIVE SumLen(_, _)
SumLen(f, keys) ==
  IF keys = {} THEN 0
  ELSE LET k == CHOOSE x \in keys : TRUE
       IN  Len(f[k]) + SumLen(f, keys \ {k})

\* getStats does not check initialization
getStats(s) ==
  Ok(s, <<[totalPatterns |-> Len(s.patterns),
               totalVersions |-> SumLen(s.versions, DOMAIN s.versions),
               byType |-> [ty \in {s.patterns[i].type : i \in 1..Len(s.patterns)} |->
                             Cardinality({i \in 1..Len(s.patterns) : s.patterns[i].type = ty})]]>>)

\* the orders in which fs.readdir may list a directory
Readdir(files) ==
  {order \in [1..Cardinality(DOMAIN files) -> DOMAIN files] :
     \A f \in DOMAIN files : \E i \in DOMAIN order : order[i] = f}

initialize(s, order, t) ==
  LET StartsWith(str, prefix) ==
        /\ Len(str) >= Len(prefix)
        /\ SubSeq(str, 1, Len(prefix)) = prefix
      EndsWith(str, suffix) ==
        /\ Len(str) >= Len(suffix)
        /\ SubSeq(str, Len(str) - Len(suffix) + 1, Len(str)) = suffix
      loadPatternVersions(st, patternId) ==
        LET versionsPath == getVersionsFilePath(patternId)
        IN  IF versionsPath \in DOMAIN st.files /\ st.files[versionsPath].kind # "corrupt"
            THEN [st EXCEPT !.versions = FnSet(@, patternId, st.files[versionsPath].json)]
            ELSE st
      RECURSIVE loadLoop(_, _)
      loadLoop(st, patternFiles) ==
        IF patternFiles = <<>> THEN st
        ELSE LET file == st.files[Head(patternFiles)]
                 s1 == IF file.kind = "pattern" /\ file.json.id # <<>>
                       THEN loadPatternVersions(
                              [st EXCEPT !.patterns = MapSet(@, file.json)], file.json.id)
                       ELSE st
             IN  loadLoop(s1, Tail(patternFiles))
      \* '.json' files whose name does not start with 'versions-'
      loadAllPatterns(st) ==
        loadLoop(st, SelectSeq(order, LAMBDA f :
                       /\ EndsWith(f, <<46,106,115,111,110>>)
                       /\ ~StartsWith(f, <<118,101,114,115,105,111,110,115,45>>)))
      RECURSIVE cleanLoop(_, _)
      cleanLoop(st, expiredIds) ==
        IF expiredIds = <<>> THEN Ok(st, <<>>)
        ELSE LET d == deletePattern(st, Head(expiredIds))
             IN  IF d.threw THEN d ELSE cleanLoop(d.s, Tail(expiredIds))
      cleanExpiredPatterns(st) ==
        LET expired == SelectSeq(st.patterns, LAMBDA p : Expired(p, t))
        IN  cleanLoop(st, [i \in 1..Len(expired) |-> expired[i].id])
  IN  IF s.initialized THEN Ok(s, <<>>)
      ELSE LET c == cleanExpiredPatterns(loadAllPatterns(s))
           IN  IF c.threw THEN c
               ELSE Ok([c.s EXCEPT !.initialized = TRUE], <<>>)

\* ------------------------------------------------------------------------
\* LearningModel
\*   lm is [model, isInitialized, labelMap, inputSize, epochs,
\*   trainingHistory] with two parts of its environment: live, the number of
\*   tf models created and not disposed, and files, the directory that
\*   saveModel writes (<<>> while it does not exist).  model is <<>> for null
\*   or <<[inputShape, units]>>, the shape of the network that buildModel
\*   compiles.  The weights are not modelled, and so neither are the loss and
\*   the accuracy of a LearningProgress or the label that a prediction gives.
\*   A call yields [lm, threw, ret]; ret is <<error>> for a call that threw.
\* ------------------------------------------------------------------------

LearningModelConstructor ==
  [model |-> <<>>, isInitialized |-> FALSE, labelMap |-> <<>>,
   inputSize |-> 100, epochs |-> 10, trainingHistory |-> <<>>,
   live |-> 0, files |-> <<>>]

\* the PatternFeatures that MemoryStorageSystem derives from a stored pattern
FeaturesOf(p) ==
  LET \* the values of a record are strings here: each becomes
      \* Math.abs(hash) % 1000 / 1000, kept in thousandths; the list is cut or
      \* zero-padded to size
      createFeaturesFromPattern(data0, size) ==
        LET \* Math.abs(hash) % 1000, hash given by its halves
            Mod1000(h) == ((h[1] % 1000) * (65536 % 1000) + h[2]) % 1000
        IN  LET flatValues ==
                  [i \in 1..Len(data0) |->
                     Mod1000(MathAbs(HashLoop(CharCodes[data0[i][2]], 1,
                                              Len(CharCodes[data0[i][2]]), <<0, 0>>)))]
            IN  [i \in 1..size |-> IF i <= Len(flatValues) THEN flatValues[i] ELSE 0]
  IN  [id |-> p.id,
       features |-> createFeaturesFromPattern(p.data, 100),
       label |-> p.type,
       metadata |-> [confidence |-> p.metadata.confidence,
                     frequency |-> p.metadata.frequency,
                     timestamp |-> p.createdAt]]

\* [...new Set(labels)]: the distinct labels in order of first occurrence
RECURSIVE Unique(_)
Unique(labels) ==
  IF labels = <<>> THEN <<>>
  ELSE LET init == Unique(SubSeq(labels, 1, Len(labels) - 1))
           l == labels[Len(labels)]
       IN  IF \E i \in 1..Len(init) : init[i] = l THEN init ELSE Append(init, l)

\* initialize without the return for a model that is initialized
lmInitializeAgain(lm, features) ==
  LET \* this.model = tf.sequential(), whatever this.model was
      buildModel(lm0) ==
        [lm0 EXCEPT !.model = <<[inputShape |-> lm0.inputSize, units |-> Len(lm0.labelMap)]>>,
                    !.live = @ + 1]
  IN  IF FALSE THEN lm
      ELSE LET lm1 == [lm EXCEPT
                         !.inputSize = IF Len(features) > 0
                                       THEN Len(features[1].features) ELSE @,
                         !.labelMap = Unique([i \in 1..Len(features) |-> features[i].label])]
           IN  [buildModel(lm1) EXCEPT !.isInitialized = TRUE]

lmInitialize(lm, features) ==
  LET \* this.model = tf.sequential(), whatever this.model was
      buildModel(lm0) ==
        [lm0 EXCEPT !.model = <<[inputShape |-> lm0.inputSize, units |-> Len(lm0.labelMap)]>>,
                    !.live = @ + 1]
  IN  IF lm.isInitialized THEN lm
      ELSE LET lm1 == [lm EXCEPT
                         !.inputSize = IF Len(features) > 0
                                       THEN Len(features[1].features) ELSE @,
                         !.labelMap = Unique([i \in 1..Len(features) |-> features[i].label])]
           IN  [buildModel(lm1) EXCEPT !.isInitialized = TRUE]

\* the rows of the two tensors: feature vectors and one-hot labels
prepareTrainingData(lm, pats) ==
  LET \* inverseLabelMap.get(label): the index (from 0), or undefined
      InverseLabelMap(lm0, label0) ==
        IF \E i \in 1..Len(lm0.labelMap) : lm0.labelMap[i] = label0
        THEN (CHOOSE i \in 1..Len(lm0.labelMap) : lm0.labelMap[i] = label0) - 1
        ELSE undefined
  IN  [features |-> [i \in 1..Len(pats) |-> pats[i].features],
       labels |-> [i \in 1..Len(pats) |->
                     LET index == Nullish(InverseLabelMap(lm, pats[i].label), 0)
                     IN  [k \in 1..Len(lm.labelMap) |-> IF k = index + 1 THEN 1 ELSE 0]]]

\* model.fit and model.predict reject tensors whose shapes differ from the
\* network's
FitThrows(model, training) ==
  \/ \E i \in 1..Len(training.features) : Len(training.features[i]) # model.inputShape
  \/ \E i \in 1..Len(training.labels) : Len(training.labels[i]) # model.units

lmEnsureInitialized(lm) == lm.isInitialized /\ lm.model # <<>>

\* throw new Error(...), and the errors that tf throws
lmThrow(lm, error) == [lm |-> lm, threw |-> TRUE, ret |-> <<error>>]

classifyPattern(lm, pattern) ==
  IF ~lmEnsureInitialized(lm) THEN lmThrow(lm, "must be initialized")
  ELSE IF Len(pattern.features) # lm.model[1].inputShape THEN lmThrow(lm, "shape")
  ELSE [lm |-> lm, threw |-> FALSE, ret |-> <<pattern.id>>]

\* the entries that onEpochEnd pushes are {epoch, timestamp} here
train(lm, pats, t) ==
  IF ~lmEnsureInitialized(lm) THEN lmThrow(lm, "must be initialized")
  ELSE IF FitThrows(lm.model[1], prepareTrainingData(lm, pats))
  THEN lmThrow([lm EXCEPT !.trainingHistory = <<>>], "shape")
  ELSE [lm |-> [lm EXCEPT !.trainingHistory =
                            [e \in 1..lm.epochs |-> [epoch |-> e, timestamp |-> t]]],
        threw |-> FALSE, ret |-> <<>>]

updateModel(lm, pats, incremental, t) ==
  IF ~lmEnsureInitialized(lm) THEN lmThrow(lm, "must be initialized")
  ELSE IF ~incremental THEN train(lm, pats, t)
  ELSE IF FitThrows(lm.model[1], prepareTrainingData(lm, pats)) THEN lmThrow(lm, "shape")
  ELSE [lm |-> lm, threw |-> FALSE, ret |-> <<>>]

\* model.save and fs.writeJSON of metadata.json
saveModel(lm) ==
  IF ~lmEnsureInitialized(lm) THEN lmThrow(lm, "must be initialized")
  ELSE [lm |-> [lm EXCEPT !.files = <<[model |-> lm.model[1], labelMap |-> lm.labelMap,
                                       inputSize |-> lm.inputSize, epochs |-> lm.epochs,
                                       trainingHistory |-> lm.trainingHistory]>>],
        threw |-> FALSE, ret |-> <<>>]

\* tf.loadLayersModel rejects when the directory has no model.json
loadModel(lm) ==
  IF lm.files = <<>> THEN lmThrow(lm, "no model.json")
  ELSE [lm |-> [lm EXCEPT !.model = <<lm.files[1].model>>,
                          !.live = @ + 1,
                          !.labelMap = lm.files[1].labelMap,
                          !.inputSize = lm.files[1].inputSize,
                          !.epochs = lm.files[1].epochs,
                          !.trainingHistory = lm.files[1].trainingHistory,
                          !.isInitialized = TRUE],
        threw |-> FALSE, ret |-> <<>>]

\* dispose that leaves the model and the flag as they are
disposeNothing(lm) == lm

dispose(lm) ==
  [lm EXCEPT !.model = <<>>,
             !.live = IF lm.model # <<>> THEN @ - 1 ELSE @,
             !.isInitialized = FALSE]

\* applyWeights without Math.min(..., 1)
applyWeightsUncapped(patterns) ==
  LET calculateWeight(pattern) ==
        LET confidenceWeight == pattern.metadata.confidence * 70
            frequencyWeight ==
              pattern.metadata.frequency * 30
        IN  confidenceWeight + frequencyWeight
      weightedPatterns ==
        [i \in 1..Len(patterns) |->
           [id |-> patterns[i].id, weight |-> calculateWeight(patterns[i]),
            originalFeatures |-> patterns[i]]]
      \* weightedPatterns.sort((a, b) => b.weight - a.weight): stable
      RECURSIVE SortByWeight(_)
      SortByWeight(list) ==
        IF list = <<>> THEN <<>>
        ELSE LET sorted == SortByWeight(SubSeq(list, 1, Len(list) - 1))
                 last1 == list[Len(list)]
                 before == SelectSeq(sorted, LAMBDA w : w.weight >= last1.weight)
                 after == SelectSeq(sorted, LAMBDA w : w.weight < last1.weight)
             IN  before \o <<last1>> \o after
  IN  SortByWeight(weightedPatterns)

\* weights are in thousandths, confidence being in tenths:
\* 0.7 * (c / 10) + 0.3 * min(f / 10, 1) = (70 c + 30 min(f, 10)) / 1000
applyWeights(patterns) ==
  LET calculateWeight(pattern) ==
        LET confidenceWeight == pattern.metadata.confidence * 70
            frequencyWeight ==
              (IF pattern.metadata.frequency < 10 THEN pattern.metadata.frequency ELSE 10) * 30
        IN  confidenceWeight + frequencyWeight
      weightedPatterns ==
        [i \in 1..Len(patterns) |->
           [id |-> patterns[i].id, weight |-> calculateWeight(patterns[i]),
            originalFeatures |-> patterns[i]]]
      \* weightedPatterns.sort((a, b) => b.weight - a.weight): stable
      RECURSIVE SortByWeight(_)
      SortByWeight(list) ==
        IF list = <<>> THEN <<>>
        ELSE LET sorted == SortByWeight(SubSeq(list, 1, Len(list) - 1))
                 last1 == list[Len(list)]
                 before == SelectSeq(sorted, LAMBDA w : w.weight >= last1.weight)
                 after == SelectSeq(sorted, LAMBDA w : w.weight < last1.weight)
             IN  before \o <<last1>> \o after
  IN  SortByWeight(weightedPatterns)

\* ------------------------------------------------------------------------
\* KnowledgeBase: extraction of knowledge items from a pattern
\*   strings that the code builds (content) are sequences of code units;
\*   structuredData keeps the entries that are defined
\* ------------------------------------------------------------------------
\* data[key]: <<>> when the property is absent, else <<entry>>
Get(data, key) ==
  IF \E i \in 1..Len(data) : data[i][1] = key
  THEN <<data[CHOOSE i \in 1..Len(data) : data[i][1] = key]>>
  ELSE <<>>

\* truthiness of data[key]: absent and '' are falsy, an array is truthy
Has(data, key) ==
  /\ Get(data, key) # <<>>
  /\ IsArray(Get(data, key)[1]) \/ Get(data, key)[1][2] # ""

RECURSIVE Join(_, _)
Join(strs, sep) ==
  IF strs = <<>> THEN <<>>
  ELSE IF Len(strs) = 1 THEN CharCodes[strs[1]]
  ELSE CharCodes[strs[1]] \o sep \o Join(Tail(strs), sep)

\* `${value}`: a string as it is, an array joined by commas
Interpolate(entry) ==
  IF IsArray(entry) THEN Join(entry[3], <<44>>) ELSE CharCodes[entry[2]]

\* the entries of data under the keys, in the order of the keys
RECURSIVE Pick(_, _)
Pick(data, keys) ==
  IF keys = <<>> THEN <<>>
  ELSE Get(data, Head(keys)) \o Pick(data, Tail(keys))

\* the item with tags: ['behavioral', 'rule'] and so on, without
\* ...pattern.metadata.tags
KnowledgeItemOwnTags(id, pattern, type, content, structuredData, typeTags, t) ==
  [id |-> id,
   patternId |-> pattern.id,
   type |-> type,
   content |-> content,
   structuredData |-> structuredData,
   metadata |-> [confidence |-> pattern.metadata.confidence,
                 sources |-> <<pattern.metadata.source>>,
                 frequency |-> pattern.metadata.frequency,
                 tags |-> typeTags,
                 lastVerified |-> t],
   createdAt |-> t,
   updatedAt |-> t]

\* the fields that every extract*Knowledge sets alike
KnowledgeItem(id, pattern, type, content, structuredData, typeTags, t) ==
  [id |-> id,
   patternId |-> pattern.id,
   type |-> type,
   content |-> content,
   structuredData |-> structuredData,
   metadata |-> [confidence |-> pattern.metadata.confidence,
                 sources |-> <<pattern.metadata.source>>,
                 frequency |-> pattern.metadata.frequency,
                 tags |-> typeTags \o pattern.metadata.tags,
                 lastVerified |-> t],
   createdAt |-> t,
   updatedAt |-> t]

\* array.includes
Includes(array, x) == \E i \in 1..Len(array) : array[i] = x

Fraction(a, b) ==
  LET RECURSIVE Gcd(_, _)
      \* a / b as the fraction <<a, b>> in lowest terms
      Gcd(a0, b0) == IF b0 = 0 THEN a0 ELSE Gcd(b0, a0 % b0)
  IN  <<a \div Gcd(a, b), b \div Gcd(a, b)>>

Max(a, b) == IF a >= b THEN a ELSE b

analyzeRelationships(items, relIds) ==
  LET RECURSIVE analyzeLoop(_, _, _, _)
      \* the relationships of items[i] with items[j..], then those of the items
      \* after it; relIds(i, j) is the id generated for the pair
      analyzeLoop(items0, relIds0, i, j) ==
        IF i > Len(items0) THEN <<>>
        ELSE IF j > Len(items0) THEN analyzeLoop(items0, relIds0, i + 1, i + 2)
        ELSE
          LET item1 == items0[i]
              item2 == items0[j]
              commonTags == SelectSeq(item1.metadata.tags,
                                      LAMBDA tag : Includes(item2.metadata.tags, tag))
              found ==
                IF Len(commonTags) > 0
                THEN <<[id |-> relIds0[<<i, j>>], fromId |-> item1.id, toId |-> item2.id,
                        type |-> "associative",
                        strength |-> Fraction(Len(commonTags),
                                              Max(Len(item1.metadata.tags),
                                                  Len(item2.metadata.tags))),
                        metadata |-> [commonTags |-> commonTags]]>>
                ELSE <<>>
          IN  found \o analyzeLoop(items0, relIds0, i, j + 1)
  IN  analyzeLoop(items, relIds, 1, 2)

\* the relationship ids of one analysis: 'rel-i-j' stands for the id
\* generated for the pair (i, j) of a list of up to three items, no two of
\* them alike
RelationshipIds ==
  (<<1, 2>> :> "rel-1-2") @@ (<<1, 3>> :> "rel-1-3") @@ (<<2, 3>> :> "rel-2-3")

\* extractKnowledge does not check initialization and changes no state
extractKnowledge(pattern, id, t) ==
  LET
        \* 'When ' and ', then '
        extractBehavioralKnowledge ==
          IF Has(pattern.data, "trigger") /\ Has(pattern.data, "action")
          THEN <<KnowledgeItem(id, pattern, "rule",
                    <<87,104,101,110,32>> \o Interpolate(Get(pattern.data, "trigger")[1])
                      \o <<44,32,116,104,101,110,32>>
                      \o Interpolate(Get(pattern.data, "action")[1]),
                    Pick(pattern.data, <<"trigger", "action", "context">>),
                    <<"behavioral", "rule">>, t)>>
          ELSE <<>>

        \* 'Temporal sequence: ' and the sequence joined by ' -> '
        extractTemporalKnowledge ==
          IF Has(pattern.data, "sequence") /\ IsArray(Get(pattern.data, "sequence")[1])
          THEN <<KnowledgeItem(id, pattern, "relationship",
                    <<84,101,109,112,111,114,97,108,32,115,101,113,117,101,110,99,101,58,32>>
                      \o Join(Get(pattern.data, "sequence")[1][3], <<32,45,62,32>>),
                    Pick(pattern.data, <<"sequence", "interval", "duration">>),
                    <<"temporal", "sequence">>, t)>>
          ELSE <<>>

        \* 'Sequential pattern: ' and the steps joined by U+2192 between spaces
        extractSequentialKnowledge ==
          IF Has(pattern.data, "steps") /\ IsArray(Get(pattern.data, "steps")[1])
          THEN <<KnowledgeItem(id, pattern, "rule",
                    <<83,101,113,117,101,110,116,105,97,108,32,112,97,116,116,101,114,110,58,32>>
                      \o Join(Get(pattern.data, "steps")[1][3], <<32,8594,32>>),
                    Pick(pattern.data, <<"steps", "conditions">>),
                    <<"sequential", "rule">>, t)>>
          ELSE <<>>

        \* 'Category ', ' contains: ' and the items joined by ', '
        extractCategoricalKnowledge ==
          IF Has(pattern.data, "category") /\ Has(pattern.data, "items")
          THEN <<KnowledgeItem(id, pattern, "concept",
                    <<67,97,116,101,103,111,114,121,32>>
                      \o Interpolate(Get(pattern.data, "category")[1])
                      \o <<32,99,111,110,116,97,105,110,115,58,32>>
                      \o (IF IsArray(Get(pattern.data, "items")[1])
                          THEN Join(Get(pattern.data, "items")[1][3], <<44,32>>)
                          ELSE Interpolate(Get(pattern.data, "items")[1])),
                    Pick(pattern.data, <<"category", "items", "attributes">>),
                    <<"categorical", "concept">>, t)>>
          ELSE <<>>

        extractGenericKnowledge ==
          KnowledgeItem(id, pattern, "fact", JsonData(pattern.data), pattern.data,
                        <<"generic">>, t)

        extractedItems ==
          CASE pattern.type = "behavioral"  -> extractBehavioralKnowledge
            [] pattern.type = "temporal"    -> extractTemporalKnowledge
            [] pattern.type = "sequential"  -> extractSequentialKnowledge
            [] pattern.type = "categorical" -> extractCategoricalKnowledge
            [] OTHER                        -> <<extractGenericKnowledge>>
  IN  [extractedItems |-> extractedItems,
       relationships |-> IF Len(extractedItems) > 1
                         THEN analyzeRelationships(extractedItems, RelationshipIds)
                         ELSE <<>>]

\* ------------------------------------------------------------------------
\* KnowledgeBase: the store of items and relationships
\*   k = [config, initialized, items, relationships, patternIndex, tagIndex,
\*   files]; items and relationships are Maps in insertion order; files are
\*   those of config.dataDir: knowledge[id] is knowledge-<id>.json and
\*   relationships is relationships.json (<<>> when it does not exist)
\* ------------------------------------------------------------------------

NoKnowledgeFiles == [knowledge |-> EmptyFn, relationships |-> <<>>]

\* constructor(config?: Partial<KnowledgeBaseConfig>) over a directory;
\* partial.enablePersistence is absent (<<>>) or present (<<b>>)
KnowledgeBaseConstructor(partial, kfiles) ==
  [config |-> [maxItems |-> Nullish(partial.maxItems, 10000),
               enablePersistence |-> IF partial.enablePersistence = <<>> THEN TRUE
                                     ELSE partial.enablePersistence[1]],
   initialized |-> FALSE,
   items |-> <<>>,
   relationships |-> <<>>,
   patternIndex |-> EmptyFn,
   tagIndex |-> EmptyFn,
   files |-> kfiles]

updatePatternIndex(k, item) ==
  [k EXCEPT !.patternIndex =
     FnSet(@, item.patternId,
           (IF item.patternId \in DOMAIN @ THEN @[item.patternId] ELSE {}) \cup {item.id})]

updateTagIndex(k, item) ==
  LET RECURSIVE addTags(_, _)
      addTags(index, tags) ==
        IF tags = <<>> THEN index
        ELSE LET tag == Head(tags)
                 tagIds == IF tag \in DOMAIN index THEN index[tag] ELSE {}
             IN  addTags(FnSet(index, tag, tagIds \cup {item.id}), Tail(tags))
  IN  [k EXCEPT !.tagIndex = addTags(@, item.metadata.tags)]

removeFromPatternIndex(k, item) ==
  [k EXCEPT !.patternIndex =
     IF item.patternId \notin DOMAIN @ THEN @
     ELSE IF @[item.patternId] \ {item.id} = {} THEN FnDelete(@, item.patternId)
     ELSE FnSet(@, item.patternId, @[item.patternId] \ {item.id})]

removeFromTagIndex(k, item) ==
  LET RECURSIVE removeTags(_, _)
      removeTags(index, tags) ==
        IF tags = <<>> THEN index
        ELSE LET tag == Head(tags)
             IN  removeTags(IF tag \notin DOMAIN index THEN index
                            ELSE IF index[tag] \ {item.id} = {} THEN FnDelete(index, tag)
                            ELSE FnSet(index, tag, index[tag] \ {item.id}),
                            Tail(tags))
  IN  [k EXCEPT !.tagIndex = removeTags(@, item.metadata.tags)]

persistKnowledge(k, item) ==
  [k EXCEPT !.files.knowledge = FnSet(@, item.id, item)]

removeKnowledgeFile(k, id) ==
  [k EXCEPT !.files.knowledge = FnDelete(@, id)]

kbEnsureInitialized(k) == k.initialized

\* removeKnowledge without lines 1077-1087: the relationships of the removed
\* item stay
removeKnowledgeNoCascade(k, id) ==
  IF ~kbEnsureInitialized(k) THEN Throw(k)
  ELSE IF ~MapHas(k.items, id) THEN Ok(k, <<FALSE>>)
  ELSE
    LET item == MapGet(k.items, id)
        k1 == removeFromTagIndex(removeFromPatternIndex(k, item), item)
        k2 == [k1 EXCEPT !.items = MapDelete(@, id)]
    IN  Ok(IF k.config.enablePersistence THEN removeKnowledgeFile(k2, id) ELSE k2,
           <<TRUE>>)

removeKnowledge(k, id) ==
  IF ~kbEnsureInitialized(k) THEN Throw(k)
  ELSE IF ~MapHas(k.items, id) THEN Ok(k, <<FALSE>>)
  ELSE
    LET item == MapGet(k.items, id)
        k1 == removeFromTagIndex(removeFromPatternIndex(k, item), item)
        k2 == [k1 EXCEPT
                 !.items = MapDelete(@, id),
                 !.relationships =
                    SelectSeq(@, LAMBDA rel : ~(rel.fromId = id \/ rel.toId = id))]
    IN  Ok(IF k.config.enablePersistence THEN removeKnowledgeFile(k2, id) ELSE k2,
           <<TRUE>>)

\* pruneOldItems(1) with the sort of line 1218 by b.createdAt - a.createdAt:
\* the item created last goes
pruneYoungestItems(k) ==
  LET Youngest(items) ==
        items[CHOOSE i \in 1..Len(items) :
                /\ \A j \in 1..Len(items) : items[i].createdAt >= items[j].createdAt
                /\ \A j \in 1..(i - 1) : items[j].createdAt # items[i].createdAt]
  IN  IF k.items = <<>> THEN Ok(k, <<>>) ELSE removeKnowledge(k, Youngest(k.items).id)

\* pruneOldItems(1), the only use. Array.prototype.sort by createdAt is
\* stable: of the items created first, the one inserted first comes first
pruneOldItems(k) ==
  LET Oldest(items) ==
        items[CHOOSE i \in 1..Len(items) :
                /\ \A j \in 1..Len(items) : items[i].createdAt <= items[j].createdAt
                /\ \A j \in 1..(i - 1) : items[j].createdAt # items[i].createdAt]
  IN  IF k.items = <<>> THEN Ok(k, <<>>) ELSE removeKnowledge(k, Oldest(k.items).id)

\* addKnowledge with `>` for `>=` at line 876
addKnowledgeOverCapacity(k, item) ==
  IF ~kbEnsureInitialized(k) THEN Throw(k)
  ELSE
    LET pruned == IF Len(k.items) > k.config.maxItems THEN pruneOldItems(k) ELSE Ok(k, <<>>)
        k1 == [pruned.s EXCEPT !.items = MapSet(@, item)]
        k2 == updateTagIndex(updatePatternIndex(k1, item), item)
    IN  IF pruned.threw THEN pruned
        ELSE Ok(IF k.config.enablePersistence THEN persistKnowledge(k2, item) ELSE k2, <<>>)

addKnowledge(k, item) ==
  IF ~kbEnsureInitialized(k) THEN Throw(k)
  ELSE
    LET pruned == IF Len(k.items) >= k.config.maxItems THEN pruneOldItems(k) ELSE Ok(k, <<>>)
        k1 == [pruned.s EXCEPT !.items = MapSet(@, item)]
        k2 == updateTagIndex(updatePatternIndex(k1, item), item)
    IN  IF pruned.threw THEN pruned
        ELSE Ok(IF k.config.enablePersistence THEN persistKnowledge(k2, item) ELSE k2, <<>>)

addKnowledgeItems(k, items) ==
  LET RECURSIVE addLoop(_, _)
      addLoop(k0, rest) ==
        IF rest = <<>> THEN Ok(k0, <<>>)
        ELSE LET a == addKnowledge(k0, Head(rest))
             IN  IF a.threw THEN a ELSE addLoop(a.s, Tail(rest))
  IN  IF ~kbEnsureInitialized(k) THEN Throw(k) ELSE addLoop(k, items)

addRelationship(k, relationship) ==
  LET \* relationships.json is rewritten with every relationship in memory
      persistRelationship(k0) ==
        [k0 EXCEPT !.files.relationships = <<k0.relationships>>]
  IN  IF ~kbEnsureInitialized(k) THEN Throw(k)
      ELSE
        LET k1 == [k EXCEPT !.relationships = MapSet(@, relationship)]
        IN  Ok(IF k.config.enablePersistence THEN persistRelationship(k1) ELSE k1, <<>>)

getKnowledge(k, id) ==
  IF ~kbEnsureInitialized(k) THEN Throw(k)
  ELSE Ok(k, IF MapHas(k.items, id) THEN <<MapGet(k.items, id)>> ELSE <<>>)

getRelationship(k, id) ==
  IF ~kbEnsureInitialized(k) THEN Throw(k)
  ELSE Ok(k, IF MapHas(k.relationships, id) THEN <<MapGet(k.relationships, id)>> ELSE <<>>)

\* updates: content, structuredData and metadata are absent (<<>>) or
\* present (<<x>>)
updateKnowledge(k, id, updates, t) ==
  IF ~kbEnsureInitialized(k) THEN Throw(k)
  ELSE IF ~MapHas(k.items, id) THEN Ok(k, <<>>)
  ELSE
    LET item == MapGet(k.items, id)
        updatedItem ==
          [item EXCEPT
             !.content = IF updates.content = <<>> THEN @ ELSE updates.content[1],
             !.structuredData = IF updates.structuredData = <<>> THEN @
                                ELSE updates.structuredData[1],
             !.metadata = IF updates.metadata = <<>> THEN @ ELSE updates.metadata[1],
             !.updatedAt = t]
        k1 == [k EXCEPT !.items = MapSet(@, updatedItem)]
    IN  Ok(IF k.config.enablePersistence THEN persistKnowledge(k1, updatedItem) ELSE k1,
           <<updatedItem>>)

\* getStats does not check initialization; averageConfidence is the fraction
\* of the total (in tenths) by the number of items
kbGetStats(k) ==
  LET RECURSIVE SumConfidence(_)
      SumConfidence(items0) ==
        IF items0 = <<>> THEN 0 ELSE Head(items0).metadata.confidence + SumConfidence(Tail(items0))
  IN  Ok(k, <<[totalItems |-> Len(k.items),
               byType |-> [ty \in {k.items[i].type : i \in 1..Len(k.items)} |->
                             Cardinality({i \in 1..Len(k.items) : k.items[i].type = ty})],
               totalRelationships |-> Len(k.relationships),
               averageConfidence |-> IF Len(k.items) > 0
                                     THEN Fraction(SumConfidence(k.items), Len(k.items))
                                     ELSE <<0, 1>>]>>)

kbInitialize(k, order) ==
  LET \* the knowledge files in the order of fs.readdir
      RECURSIVE loadKnowledgeLoop(_, _)
      loadKnowledgeLoop(kb0, files) ==
        IF files = <<>> THEN kb0
        ELSE LET data == kb0.files.knowledge[Head(files)]
                 k1 == [kb0 EXCEPT !.items = MapSet(@, data)]
             IN  loadKnowledgeLoop(updateTagIndex(updatePatternIndex(k1, data), data),
                                   Tail(files))
      RECURSIVE loadRelationshipsLoop(_, _)
      loadRelationshipsLoop(kb0, rels) ==
        IF rels = <<>> THEN kb0
        ELSE loadRelationshipsLoop([kb0 EXCEPT !.relationships = MapSet(@, Head(rels))],
                                   Tail(rels))
      \* then relationships.json, if it exists
      loadAllKnowledge ==
        LET k1 == loadKnowledgeLoop(k, order)
        IN  IF k.files.relationships = <<>> THEN k1
            ELSE loadRelationshipsLoop(k1, k.files.relationships[1])
  IN  IF k.initialized THEN Ok(k, <<>>)
      ELSE Ok([(IF k.config.enablePersistence THEN loadAllKnowledge ELSE k)
                 EXCEPT !.initialized = TRUE], <<>>)

\* ------------------------------------------------------------------------
\* KnowledgeBase: queries
\*   a relevanceScore is a fraction <<numerator, denominator>>
\* ------------------------------------------------------------------------

\* queryKnowledge with the factor 1.1 applied only when the content does
\* not match
queryKnowledgeOneBoost(k, query) ==
  LET \* String.prototype.toLowerCase on the code units A..Z
      ToLowerCase(str) ==
        [i \in 1..Len(str) |-> IF str[i] >= 65 /\ str[i] <= 90 THEN str[i] + 32 ELSE str[i]]
      \* String.prototype.includes
      StringIncludes(str, text) ==
        \E i \in 1..(Len(str) - Len(text) + 1) : SubSeq(str, i, i + Len(text) - 1) = text
      Times(x, y) == Fraction(x[1] * y[1], x[2] * y[2])
      findRelatedItemIds(itemId) ==
        {k.relationships[i].toId :
           i \in {j \in 1..Len(k.relationships) : k.relationships[j].fromId = itemId}}
        \cup
        {k.relationships[i].fromId :
           i \in {j \in 1..Len(k.relationships) :
                    /\ k.relationships[j].fromId # itemId
                    /\ k.relationships[j].toId = itemId}}
      \* Array.prototype.find over the relationships in insertion order
      FirstTouching(rels, id) ==
        IF \E i \in 1..Len(rels) : rels[i].fromId = id \/ rels[i].toId = id
        THEN <<rels[CHOOSE i \in 1..Len(rels) :
                      /\ rels[i].fromId = id \/ rels[i].toId = id
                      /\ \A j \in 1..(i - 1) : ~(rels[j].fromId = id \/ rels[j].toId = id)]>>
        ELSE <<>>
      contentMatch(item) ==
        StringIncludes(ToLowerCase(item.content), ToLowerCase(CharCodes[query.text]))
      structuredMatch(item) ==
        StringIncludes(ToLowerCase(JsonData(item.structuredData)),
                       ToLowerCase(CharCodes[query.text]))
      \* KnowledgeQuery: type '', tags <<>>, patternId <<>>, minConfidence
      \* `undefined`, text '' and relatedTo '' stand for absent criteria, which
      \* the code does not tell from these falsy values
      KnowledgeMatches(item) ==
        /\ ~(query.type # "" /\ item.type # query.type)
        /\ ~(Len(query.tags) > 0
               /\ ~\E i \in 1..Len(query.tags) : Includes(item.metadata.tags, query.tags[i]))
        /\ ~(query.patternId # <<>> /\ item.patternId # query.patternId)
        /\ ~(Truthy(query.minConfidence) /\ item.metadata.confidence < query.minConfidence)
        /\ ~(query.text # "" /\ ~contentMatch(item) /\ ~structuredMatch(item))
        /\ ~(query.relatedTo # "" /\ item.id \notin findRelatedItemIds(query.relatedTo))
      RelevanceScore(item) ==
        LET tagScore ==
              IF Len(query.tags) > 0
              THEN Fraction(Len(SelectSeq(query.tags,
                                          LAMBDA tag : Includes(item.metadata.tags, tag))),
                            Len(query.tags))
              ELSE <<1, 1>>
            textScore ==
              Times(IF query.text # "" /\ contentMatch(item)
                    THEN Times(tagScore, <<6, 5>>) ELSE tagScore,
                    IF query.text # "" /\ structuredMatch(item) /\ ~contentMatch(item)
                    THEN <<11, 10>> ELSE <<1, 1>>)
            relationship ==
              IF query.relatedTo # "" THEN FirstTouching(k.relationships, query.relatedTo)
              ELSE <<>>
        IN  IF relationship # <<>> THEN Times(textScore, relationship[1].strength)
            ELSE textScore
      \* x.relevanceScore > y.relevanceScore
      Above(x, y) ==
        x.relevanceScore[1] * y.relevanceScore[2] > y.relevanceScore[1] * x.relevanceScore[2]
      \* results.sort((a, b) => b.relevanceScore - a.relevanceScore): stable
      RECURSIVE SortByScore(_)
      SortByScore(results) ==
        IF results = <<>> THEN <<>>
        ELSE LET sorted == SortByScore(SubSeq(results, 1, Len(results) - 1))
                 last1 == results[Len(results)]
                 before == SelectSeq(sorted, LAMBDA r : ~Above(last1, r))
                 after == SelectSeq(sorted, LAMBDA r : Above(last1, r))
             IN  before \o <<last1>> \o after
  IN  IF ~kbEnsureInitialized(k) THEN Throw(k)
      ELSE
        LET matching == SelectSeq(k.items, LAMBDA item : KnowledgeMatches(item))
        IN  Ok(k, SortByScore([i \in 1..Len(matching) |->
                                 [item |-> matching[i],
                                  relevanceScore |-> RelevanceScore(matching[i])]]))

queryKnowledge(k, query) ==
  LET \* String.prototype.toLowerCase on the code units A..Z
      ToLowerCase(str) ==
        [i \in 1..Len(str) |-> IF str[i] >= 65 /\ str[i] <= 90 THEN str[i] + 32 ELSE str[i]]
      \* String.prototype.includes
      StringIncludes(str, text) ==
        \E i \in 1..(Len(str) - Len(text) + 1) : SubSeq(str, i, i + Len(text) - 1) = text
      Times(x, y) == Fraction(x[1] * y[1], x[2] * y[2])
      findRelatedItemIds(itemId) ==
        {k.relationships[i].toId :
           i \in {j \in 1..Len(k.relationships) : k.relationships[j].fromId = itemId}}
        \cup
        {k.relationships[i].fromId :
           i \in {j \in 1..Len(k.relationships) :
                    /\ k.relationships[j].fromId # itemId
                    /\ k.relationships[j].toId = itemId}}
      \* Array.prototype.find over the relationships in insertion order
      FirstTouching(rels, id) ==
        IF \E i \in 1..Len(rels) : rels[i].fromId = id \/ rels[i].toId = id
        THEN <<rels[CHOOSE i \in 1..Len(rels) :
                      /\ rels[i].fromId = id \/ rels[i].toId = id
                      /\ \A j \in 1..(i - 1) : ~(rels[j].fromId = id \/ rels[j].toId = id)]>>
        ELSE <<>>
      contentMatch(item) ==
        StringIncludes(ToLowerCase(item.content), ToLowerCase(CharCodes[query.text]))
      structuredMatch(item) ==
        StringIncludes(ToLowerCase(JsonData(item.structuredData)),
                       ToLowerCase(CharCodes[query.text]))
      \* KnowledgeQuery: type '', tags <<>>, patternId <<>>, minConfidence
      \* `undefined`, text '' and relatedTo '' stand for absent criteria, which
      \* the code does not tell from these falsy values
      KnowledgeMatches(item) ==
        /\ ~(query.type # "" /\ item.type # query.type)
        /\ ~(Len(query.tags) > 0
               /\ ~\E i \in 1..Len(query.tags) : Includes(item.metadata.tags, query.tags[i]))
        /\ ~(query.patternId # <<>> /\ item.patternId # query.patternId)
        /\ ~(Truthy(query.minConfidence) /\ item.metadata.confidence < query.minConfidence)
        /\ ~(query.text # "" /\ ~contentMatch(item) /\ ~structuredMatch(item))
        /\ ~(query.relatedTo # "" /\ item.id \notin findRelatedItemIds(query.relatedTo))
      RelevanceScore(item) ==
        LET tagScore ==
              IF Len(query.tags) > 0
              THEN Fraction(Len(SelectSeq(query.tags,
                                          LAMBDA tag : Includes(item.metadata.tags, tag))),
                            Len(query.tags))
              ELSE <<1, 1>>
            textScore ==
              Times(IF query.text # "" /\ contentMatch(item)
                    THEN Times(tagScore, <<6, 5>>) ELSE tagScore,
                    IF query.text # "" /\ structuredMatch(item)
                    THEN <<11, 10>> ELSE <<1, 1>>)
            relationship ==
              IF query.relatedTo # "" THEN FirstTouching(k.relationships, query.relatedTo)
              ELSE <<>>
        IN  IF relationship # <<>> THEN Times(textScore, relationship[1].strength)
            ELSE textScore
      \* x.relevanceScore > y.relevanceScore
      Above(x, y) ==
        x.relevanceScore[1] * y.relevanceScore[2] > y.relevanceScore[1] * x.relevanceScore[2]
      \* results.sort((a, b) => b.relevanceScore - a.relevanceScore): stable
      RECURSIVE SortByScore(_)
      SortByScore(results) ==
        IF results = <<>> THEN <<>>
        ELSE LET sorted == SortByScore(SubSeq(results, 1, Len(results) - 1))
                 last1 == results[Len(results)]
                 before == SelectSeq(sorted, LAMBDA r : ~Above(last1, r))
                 after == SelectSeq(sorted, LAMBDA r : Above(last1, r))
             IN  before \o <<last1>> \o after
  IN  IF ~kbEnsureInitialized(k) THEN Throw(k)
      ELSE
        LET matching == SelectSeq(k.items, LAMBDA item : KnowledgeMatches(item))
        IN  Ok(k, SortByScore([i \in 1..Len(matching) |->
                                 [item |-> matching[i],
                                  relevanceScore |-> RelevanceScore(matching[i])]]))

\* findRelatedItems without visited.add(id) for the start item
findRelatedItemsStartUnvisited(k, itemId, maxDepth) ==
  LET RECURSIVE traverse(_, _, _)
      RECURSIVE traverseLoop(_, _, _, _)
      traverse(id, depth, st) ==
        IF depth > maxDepth \/ id \in st.visited THEN st
        ELSE traverseLoop(id, depth, 1,
                          IF depth = 0 THEN st ELSE [st EXCEPT !.visited = @ \cup {id}])
      traverseLoop(id, depth, i, st) ==
        IF i > Len(k.relationships) THEN st
        ELSE
          LET relationship == k.relationships[i]
              neighborId == IF relationship.fromId = id THEN relationship.toId
                            ELSE IF relationship.toId = id THEN relationship.fromId
                            ELSE ""
              st1 == IF neighborId # "" /\ neighborId \notin st.visited
                          /\ MapHas(k.items, neighborId)
                     THEN traverse(neighborId, depth + 1,
                                   [st EXCEPT !.result = Append(@, MapGet(k.items, neighborId))])
                     ELSE st
          IN  traverseLoop(id, depth, i + 1, st1)
  IN  IF ~kbEnsureInitialized(k) THEN Throw(k)
      ELSE Ok(k, traverse(itemId, 0, [visited |-> {}, result |-> <<>>]).result)

\* traverse(id, depth) and its loop over the relationships from the i-th
\* on; st = [visited, result]
findRelatedItems(k, itemId, maxDepth) ==
  LET RECURSIVE traverse(_, _, _)
      RECURSIVE traverseLoop(_, _, _, _)
      traverse(id, depth, st) ==
        IF depth > maxDepth \/ id \in st.visited THEN st
        ELSE traverseLoop(id, depth, 1, [st EXCEPT !.visited = @ \cup {id}])
      traverseLoop(id, depth, i, st) ==
        IF i > Len(k.relationships) THEN st
        ELSE
          LET relationship == k.relationships[i]
              neighborId == IF relationship.fromId = id THEN relationship.toId
                            ELSE IF relationship.toId = id THEN relationship.fromId
                            ELSE ""
              st1 == IF neighborId # "" /\ neighborId \notin st.visited
                          /\ MapHas(k.items, neighborId)
                     THEN traverse(neighborId, depth + 1,
                                   [st EXCEPT !.result = Append(@, MapGet(k.items, neighborId))])
                     ELSE st
          IN  traverseLoop(id, depth, i + 1, st1)
  IN  IF ~kbEnsureInitialized(k) THEN Throw(k)
      ELSE Ok(k, traverse(itemId, 0, [visited |-> {}, result |-> <<>>]).result)

\* ------------------------------------------------------------------------
\* MemoryStorageSystem
\*   a call yields [s, lm, k, threw, ret] for its PatternStorage s, its
\*   LearningModel lm and its KnowledgeBase k
\* ------------------------------------------------------------------------
AllFeatures(pats) == [i \in 1..Len(pats) |-> FeaturesOf(pats[i])]

NoQuery ==
  [type |-> "", tags |-> <<>>, minConfidence |-> undefined, minFrequency |-> undefined,
   createdAfter |-> undefined, createdBefore |-> undefined, notExpired |-> FALSE]

systemInitialize(s, lm, k, order, korder, t) ==
  LET i == initialize(s, order, t)
      ki == kbInitialize(k, korder)
      allPatterns == queryPatterns(i.s, NoQuery, t).ret
  IN  IF i.threw THEN [s |-> i.s, lm |-> lm, k |-> k, threw |-> TRUE, ret |-> <<>>]
      ELSE [s |-> i.s,
            lm |-> IF Len(allPatterns) > 0
                   THEN lmInitialize(lm, AllFeatures(allPatterns)) ELSE lm,
            k |-> ki.s,
            threw |-> FALSE, ret |-> <<>>]

\* addPattern with an empty catch block
addPatternNoRebuild(s, lm, k, pattern, id, t) ==
  LET RECURSIVE addRelationshipLoop(_, _)
      addRelationshipLoop(k0, relationships0) ==
        IF relationships0 = <<>> THEN Ok(k0, <<>>)
        ELSE LET a == addRelationship(k0, Head(relationships0))
             IN  IF a.threw THEN a ELSE addRelationshipLoop(a.s, Tail(relationships0))
  IN  LET saved == savePattern(s, pattern, t)
          extraction == extractKnowledge(saved.ret[1], id, t)
          added == addKnowledgeItems(k, extraction.extractedItems)
          related == addRelationshipLoop(added.s, extraction.relationships)
          u == updateModel(lm, <<FeaturesOf(saved.ret[1])>>, TRUE, t)
          allFeatures == AllFeatures(queryPatterns(saved.s, NoQuery, t).ret)
          lm2 == lmInitialize(dispose(lm), allFeatures)
          tr == train(lm2, allFeatures, t)
      IN  IF saved.threw
          THEN [s |-> saved.s, lm |-> lm, k |-> k, threw |-> TRUE, ret |-> <<>>]
          ELSE IF added.threw
          THEN [s |-> saved.s, lm |-> lm, k |-> added.s, threw |-> TRUE, ret |-> <<>>]
          ELSE IF related.threw
          THEN [s |-> saved.s, lm |-> lm, k |-> related.s, threw |-> TRUE, ret |-> <<>>]
          ELSE IF ~u.threw
          THEN [s |-> saved.s, lm |-> u.lm, k |-> related.s, threw |-> FALSE, ret |-> <<>>]
          ELSE [s |-> saved.s, lm |-> lm, k |-> related.s, threw |-> FALSE, ret |-> <<>>]

\* id is the id generated for the knowledge item of the extraction
addPattern(s, lm, k, pattern, id, t) ==
  LET RECURSIVE addRelationshipLoop(_, _)
      addRelationshipLoop(k0, relationships0) ==
        IF relationships0 = <<>> THEN Ok(k0, <<>>)
        ELSE LET a == addRelationship(k0, Head(relationships0))
             IN  IF a.threw THEN a ELSE addRelationshipLoop(a.s, Tail(relationships0))
  IN  LET saved == savePattern(s, pattern, t)
          extraction == extractKnowledge(saved.ret[1], id, t)
          added == addKnowledgeItems(k, extraction.extractedItems)
          related == addRelationshipLoop(added.s, extraction.relationships)
          u == updateModel(lm, <<FeaturesOf(saved.ret[1])>>, TRUE, t)
          allFeatures == AllFeatures(queryPatterns(saved.s, NoQuery, t).ret)
          lm2 == lmInitialize(dispose(lm), allFeatures)
          tr == train(lm2, allFeatures, t)
      IN  IF saved.threw
          THEN [s |-> saved.s, lm |-> lm, k |-> k, threw |-> TRUE, ret |-> <<>>]
          ELSE IF added.threw
          THEN [s |-> saved.s, lm |-> lm, k |-> added.s, threw |-> TRUE, ret |-> <<>>]
          ELSE IF related.threw
          THEN [s |-> saved.s, lm |-> lm, k |-> related.s, threw |-> TRUE, ret |-> <<>>]
          ELSE IF ~u.threw
          THEN [s |-> saved.s, lm |-> u.lm, k |-> related.s, threw |-> FALSE, ret |-> <<>>]
          ELSE [s |-> saved.s, lm |-> tr.lm, k |-> related.s, threw |-> tr.threw, ret |-> <<>>]

\* ------------------------------------------------------------------------
\* State
\* ------------------------------------------------------------------------
VARIABLES
  config,       \* PatternStorage.config
  initialized,  \* PatternStorage.initialized
  patterns,     \* PatternStorage.patterns
  versions,     \* PatternStorage.versions
  files,        \* the files of config.dataDir: name -> content
  now,          \* Date.now()
  last,         \* the call that has just completed: [op, args, threw, ret]
  budget,       \* state-changing calls still allowed (Unlimited: no cap)
  learningModel, \* MemoryStorageSystem.learningModel
  kb,           \* the KnowledgeBase: its fields and the files of its dataDir
  suspended     \* the addKnowledge calls that wait for a file operation

vars ==
  <<config, initialized, patterns, versions, files, now, last, budget, learningModel, kb,
    suspended>>

Store ==
  [config |-> config, initialized |-> initialized, patterns |-> patterns,
   versions |-> versions, files |-> files]

Becomes(s) ==
  /\ config' = s.config
  /\ initialized' = s.initialized
  /\ patterns' = s.patterns
  /\ versions' = s.versions
  /\ files' = s.files

NoCall == [op |-> "none", args |-> <<>>, threw |-> FALSE, ret |-> <<>>]

Unlimited == -1

\* a call that changes the store other than by initialize uses the budget
Spend(op, s) ==
  IF budget = Unlimited \/ s = Store \/ op = "initialize"
  THEN UNCHANGED budget
  ELSE budget > 0 /\ budget' = budget - 1

\* one public method runs to completion before the next is invoked
Call(op, args, r) ==
  /\ last = NoCall
  /\ Becomes(r.s)
  /\ Spend(op, r.s)
  /\ last' = [op |-> op, args |-> args, threw |-> r.threw, ret |-> r.ret]
  /\ UNCHANGED <<now, learningModel, kb, suspended>>

\* a call on the MemoryStorageSystem
SystemCall(op, args, r) ==
  /\ last = NoCall
  /\ Becomes(r.s)
  /\ Spend(op, r.s)
  /\ learningModel' = r.lm
  /\ kb' = r.k
  /\ last' = [op |-> op, args |-> args, threw |-> r.threw, ret |-> r.ret]
  /\ UNCHANGED <<now, suspended>>

\* new KnowledgeBase({ dataDir }) of the MemoryStorageSystem
NoKnowledgeConfig == [maxItems |-> undefined, enablePersistence |-> <<>>]

FreshIds == ({"k1", "k2", "k3", "k4", "k5"}) \ {kb.items[i].id : i \in 1..Len(kb.items)}

\* the state after construction, but for the KnowledgeBase
InitStore(partial, calls) ==
  LET Is(s) ==
        /\ config = s.config
        /\ initialized = s.initialized
        /\ patterns = s.patterns
        /\ versions = s.versions
        /\ files = s.files
  IN  /\ Is(constructor(partial, EmptyFn))
      /\ now = 1
      /\ last = NoCall
      /\ budget = calls
      /\ learningModel = LearningModelConstructor
      /\ suspended = <<>>

InitWith(partial, calls) ==
  /\ InitStore(partial, calls)
  /\ kb = KnowledgeBaseConstructor(NoKnowledgeConfig, NoKnowledgeFiles)

\* the ids a caller can name: those stored, and a missing one
IdInputs == MapKeys(patterns) \cup {(<<110,111,110,45,101,120,105,115,116,101,110,116>>)}

Queries == {NoQuery, [NoQuery EXCEPT !.notExpired = TRUE]}

\* ------------------------------------------------------------------------
\* Actions: the calls on one PatternStorage, the clock and the process
\* ------------------------------------------------------------------------
Initialize ==
  \E order \in Readdir(files) :
    Call("initialize", <<>>, initialize(Store, order, now))

SavePattern(inputs) ==
  \E c \in inputs : Call("savePattern", <<c>>, savePattern(Store, c, now))

GetPattern ==
  \E id \in IdInputs : Call("getPattern", <<id>>, getPattern(Store, id, now))

UpdatePattern(inputs) ==
  \E id \in IdInputs, u \in inputs :
    Call("updatePattern", <<id, u>>, updatePattern(Store, id, u, now))

DeletePattern ==
  \E id \in IdInputs : Call("deletePattern", <<id>>, deletePattern(Store, id))

QueryPatterns ==
  \E q \in Queries : Call("queryPatterns", <<q>>, queryPatterns(Store, q, now))

GetPatternVersions ==
  \E id \in IdInputs : Call("getPatternVersions", <<id>>, getPatternVersions(Store, id))

RestorePattern ==
  \E id \in IdInputs, v \in (1..(config.maxVersions + 1)) :
    Call("restorePattern", <<id, v>>, restorePattern(Store, id, v, now))

GetStats == Call("getStats", <<>>, getStats(Store))

\* the caller takes the result
Return ==
  /\ last # NoCall
  /\ last' = NoCall
  /\ UNCHANGED <<config, initialized, patterns, versions, files, now, budget, learningModel, kb,
                 suspended>>

\* time passes between calls
Tick ==
  /\ last = NoCall
  /\ now < MaxTime
  /\ now' = now + 1
  /\ UNCHANGED <<config, initialized, patterns, versions, files, last, budget, learningModel, kb,
                 suspended>>

\* the process ends and a new PatternStorage is constructed over the directory
Restart ==
  /\ last = NoCall
  /\ Becomes(constructor(config, files))
  /\ UNCHANGED <<now, last, budget, learningModel, kb, suspended>>

\* ------------------------------------------------------------------------
\* Spec: a PatternStorage with a small configuration, every call, several
\* candidates, at most MaxCalls state-changing calls
\* ------------------------------------------------------------------------
SmallConfig == [maxVersions |-> CfgMaxVersions, defaultExpirationDays |-> CfgExpirationDays]

Next ==
  \/ Initialize
  \/ SavePattern(Candidates)
  \/ GetPattern
  \/ UpdatePattern(Updates)
  \/ DeletePattern
  \/ QueryPatterns
  \/ GetPatternVersions
  \/ RestorePattern
  \/ GetStats
  \/ Return
  \/ Tick
  \/ Restart

Spec == InitWith(SmallConfig, MaxCalls) /\ [][Next]_vars

\* ------------------------------------------------------------------------
\* SpecHistory: the same store and calls with one candidate and no cap on
\* the number of calls, so that the history is trimmed again and again
\* ------------------------------------------------------------------------

NextHistory ==
  \/ Initialize
  \/ SavePattern({Candidate})
  \/ GetPattern
  \/ UpdatePattern((Updates \cup {[NoUpdate EXCEPT !.expiresAt = 0]}))
  \/ DeletePattern
  \/ QueryPatterns
  \/ GetPatternVersions
  \/ RestorePattern
  \/ GetStats
  \/ Return
  \/ Tick
  \/ Restart

SpecHistory == InitWith(SmallConfig, Unlimited) /\ [][NextHistory]_vars

\* ------------------------------------------------------------------------
\* SpecDefault: the store as the tests construct it (maxVersions 10,
\* expiration after 30 days), one pattern, within one day
\* ------------------------------------------------------------------------
NoConfig == [maxVersions |-> undefined, defaultExpirationDays |-> undefined]

NextDefault ==
  \/ Initialize
  \/ SavePattern({Candidate})
  \/ UpdatePattern({DataUpdate})
  \/ RestorePattern
  \/ Return

SpecDefault == InitWith(NoConfig, Unlimited) /\ [][NextDefault]_vars

\* ------------------------------------------------------------------------
\* SpecDirectory: the store over a directory whose files may be damaged,
\* patterns of every type of the model
\* ------------------------------------------------------------------------
\* a file of the directory is damaged: fs.readJSON of it throws
Corrupt ==
  /\ last = NoCall
  /\ budget > 0
  /\ budget' = budget - 1
  /\ \E f \in DOMAIN files :
        /\ files[f].kind # "corrupt"
        /\ files' = FnSet(files, f, [kind |-> "corrupt", json |-> <<>>])
  /\ UNCHANGED <<config, initialized, patterns, versions, now, last, learningModel, kb, suspended>>

NextDirectory ==
  \/ Initialize
  \/ SavePattern(DOMAIN PatternIds)
  \/ UpdatePattern({DataUpdate})
  \/ DeletePattern
  \/ RestorePattern
  \/ Corrupt
  \/ Return
  \/ Tick
  \/ Restart

SpecDirectory == InitWith(SmallConfig, MaxCalls) /\ [][NextDirectory]_vars

\* ------------------------------------------------------------------------
\* SpecSystem: a MemoryStorageSystem, whose PatternStorage has the default
\* configuration, at most MaxCalls calls that change the store
\* ------------------------------------------------------------------------
SystemInitialize ==
  \E order \in Readdir(files), korder \in Readdir(kb.files.knowledge) :
    SystemCall("initialize", <<>>,
               systemInitialize(Store, learningModel, kb, order, korder, now))

\* generateKnowledgeId gives an id that no item has; the ids are opaque, and
\* one fresh id stands for all of them
AddPattern ==
  \E c \in SystemCandidates, id \in {fresh \in FreshIds : fresh = CHOOSE x \in FreshIds : TRUE} :
    SystemCall("addPattern", <<c>>, addPattern(Store, learningModel, kb, c, id, now))

Shutdown ==
  SystemCall("shutdown", <<>>,
             [s |-> Store, lm |-> dispose(learningModel), k |-> kb, threw |-> FALSE,
              ret |-> <<>>])

\* the process ends and a new MemoryStorageSystem is constructed over the
\* directory
SystemRestart ==
  /\ last = NoCall
  /\ Becomes(constructor(NoConfig, files))
  /\ learningModel' = LearningModelConstructor
  /\ kb' = KnowledgeBaseConstructor(NoKnowledgeConfig, kb.files)
  /\ UNCHANGED <<now, last, budget, suspended>>

NextSystem ==
  \/ SystemInitialize
  \/ AddPattern
  \/ Shutdown
  \/ SystemRestart
  \/ Return
  \/ Tick

SpecSystem == InitWith(NoConfig, MaxCalls) /\ [][NextSystem]_vars

\* ------------------------------------------------------------------------
\* SpecKnowledge: one KnowledgeBase with a small maxItems and persistence,
\* at most KbMaxCalls calls that change it
\* ------------------------------------------------------------------------

\* the patterns of the extractKnowledge tests, a behavioral one without
\* trigger, one with an empty trigger, one tagged 'rule', and one of a type
\* that has no extractor
ExtractInputs ==
  LET \* a Pattern as PatternStorage returns it, given to extractKnowledge
      StoredPattern(type, data, tags) ==
        [id |-> <<112,45,49>>, type |-> type, data |-> data,
         metadata |-> [Meta(9) EXCEPT !.tags = tags],
         createdAt |-> 1, updatedAt |-> 1, expiresAt |-> undefined]
      RuleData == << <<"trigger", "rain">>, <<"action", "run">> >>
  IN  {StoredPattern("behavioral", RuleData, <<"ui", "a">>),
       StoredPattern("behavioral", RuleData, <<>>),
       StoredPattern("behavioral", RuleData, <<"rule">>),
       StoredPattern("behavioral", Value, <<"ui">>),
       StoredPattern("behavioral", << <<"trigger", "">>, <<"action", "run">> >>, <<"ui">>),
       StoredPattern("temporal", << <<"sequence", "array", <<"a", "b", "c">>>> >>, <<"temporal">>),
       StoredPattern("temporal", << <<"sequence", "a">> >>, <<"temporal">>),
       StoredPattern("sequential", << <<"steps", "array", <<"a", "b">>>> >>, <<"sequential">>),
       StoredPattern("sequential", Value, <<"sequential">>),
       StoredPattern("categorical",
                     << <<"category", "colors">>, <<"items", "array", <<"a", "b">>>> >>,
                     <<"categorical">>),
       StoredPattern("categorical", << <<"category", "colors">>, <<"items", "a">> >>, <<"ui">>),
       StoredPattern("categorical", << <<"category", "colors">> >>, <<"ui">>),
       StoredPattern("test", Value, <<"test", "a">>),
       StoredPattern("test", << <<"items", "array", <<"a", "b">>>> >>, <<>>)}

\* a KnowledgeItem that a caller adds
Item(id, tags, createdAt) ==
  [id |-> id, patternId |-> <<112,45,49>>, type |-> "fact",
   content |-> CharCodes["test"], structuredData |-> Value,
   metadata |-> [confidence |-> 9, sources |-> <<"test">>, frequency |-> 1,
                 tags |-> tags, lastVerified |-> undefined],
   createdAt |-> createdAt, updatedAt |-> createdAt]

ItemTags == [k1 |-> <<"a", "b">>, k2 |-> <<"a", "c">>, k3 |-> <<"c">>]

ItemListInputs ==
  {<<Item("k1", ItemTags["k1"], now), Item("k2", ItemTags["k2"], now)>>,
   <<Item("k1", ItemTags["k1"], now), Item("k2", ItemTags["k2"], now),
     Item("k3", ItemTags["k3"], now)>>}

\* relationships between the items, of strength 0.8 and one of strength 0.5,
\* one from an item to itself and one between ids that may not be items
RelationshipInputs ==
  LET Relationship(id, fromId, toId, strength) ==
        [id |-> id, fromId |-> fromId, toId |-> toId, type |-> "associative",
         strength |-> strength, metadata |-> [commonTags |-> <<>>]]
  IN  {Relationship("rel-1", "k1", "k2", <<4, 5>>),
       Relationship("rel-2", "k2", "k3", <<4, 5>>),
       Relationship("rel-3", "k3", "k1", <<1, 2>>),
       Relationship("rel-4", "k1", "k1", <<4, 5>>),
       Relationship("rel-5", "k1", "missing", <<4, 5>>)}

KnowledgeIdInputs == DOMAIN ItemTags \cup {"missing"}

\* a call on the KnowledgeBase; one that changes it uses the budget
KnowledgeCall(op, args, r) ==
  /\ last = NoCall
  /\ kb' = r.s
  /\ IF r.s = kb \/ op = "KnowledgeBase.initialize" THEN UNCHANGED budget
     ELSE budget > 0 /\ budget' = budget - 1
  /\ last' = [op |-> op, args |-> args, threw |-> r.threw, ret |-> r.ret]
  /\ UNCHANGED <<config, initialized, patterns, versions, files, now, learningModel, suspended>>

KnowledgeInitialize ==
  \E order \in Readdir(kb.files.knowledge) :
    KnowledgeCall("KnowledgeBase.initialize", <<>>, kbInitialize(kb, order))

ExtractKnowledge ==
  \E pattern \in ExtractInputs, id \in FreshIds :
    KnowledgeCall("extractKnowledge", <<pattern>>,
                  Ok(kb, <<extractKnowledge(pattern, id, now)>>))

AddKnowledge ==
  \E item \in ({Item(id, ItemTags[id], t) : id \in DOMAIN ItemTags, t \in 1..now}) : KnowledgeCall("addKnowledge", <<item>>, addKnowledge(kb, item))

AddKnowledgeItems ==
  \E items \in ItemListInputs :
    KnowledgeCall("addKnowledgeItems", <<items>>, addKnowledgeItems(kb, items))

AddRelationship ==
  \E relationship \in RelationshipInputs :
    KnowledgeCall("addRelationship", <<relationship>>, addRelationship(kb, relationship))

GetKnowledge ==
  \E id \in KnowledgeIdInputs : KnowledgeCall("getKnowledge", <<id>>, getKnowledge(kb, id))

GetRelationship ==
  \E relationship \in RelationshipInputs :
    KnowledgeCall("getRelationship", <<relationship.id>>,
                  getRelationship(kb, relationship.id))

QueryKnowledge ==
  LET NoKnowledgeQuery ==
        [type |-> "", tags |-> <<>>, patternId |-> <<>>, minConfidence |-> undefined,
         text |-> "", relatedTo |-> ""]
      KnowledgeQueries ==
        {NoKnowledgeQuery,
         [NoKnowledgeQuery EXCEPT !.tags = <<"a", "b">>],
         [NoKnowledgeQuery EXCEPT !.tags = <<"a", "b">>, !.text = "e"],
         [NoKnowledgeQuery EXCEPT !.text = "test"],
         [NoKnowledgeQuery EXCEPT !.text = "TEST"],
         [NoKnowledgeQuery EXCEPT !.text = "value"],
         [NoKnowledgeQuery EXCEPT !.text = "e"],
         [NoKnowledgeQuery EXCEPT !.relatedTo = "k1"]}
  IN  \E query \in KnowledgeQueries :
        KnowledgeCall("queryKnowledge", <<query>>, queryKnowledge(kb, query))

FindRelatedItems ==
  \E id \in KnowledgeIdInputs, maxDepth \in (0..2) :
    KnowledgeCall("findRelatedItems", <<id, maxDepth>>, findRelatedItems(kb, id, maxDepth))

RemoveKnowledge ==
  \E id \in KnowledgeIdInputs :
    KnowledgeCall("removeKnowledge", <<id>>, removeKnowledge(kb, id))

UpdateKnowledge ==
  LET NoKnowledgeUpdate == [content |-> <<>>, structuredData |-> <<>>, metadata |-> <<>>]
      KnowledgeUpdates ==
        {[NoKnowledgeUpdate EXCEPT !.content = <<CharCodes["updated"]>>],
         [NoKnowledgeUpdate EXCEPT
            !.metadata = <<[confidence |-> 5, sources |-> <<"test">>, frequency |-> 2,
                            tags |-> <<"b">>, lastVerified |-> undefined]>>]}
  IN  \E id \in KnowledgeIdInputs, updates \in KnowledgeUpdates :
        KnowledgeCall("updateKnowledge", <<id, updates>>, updateKnowledge(kb, id, updates, now))

KnowledgeGetStats == KnowledgeCall("KnowledgeBase.getStats", <<>>, kbGetStats(kb))

\* the process ends and a new KnowledgeBase is constructed over the directory
KnowledgeRestart ==
  /\ last = NoCall
  /\ kb' = [KnowledgeBaseConstructor(NoKnowledgeConfig, kb.files) EXCEPT !.config = kb.config]
  /\ UNCHANGED <<config, initialized, patterns, versions, files, now, last, budget,
                 learningModel, suspended>>

\* new KnowledgeBase({ dataDir, maxItems }), as the tests construct it
InitKnowledge ==
  /\ InitStore(NoConfig, KbMaxCalls)
  /\ kb = KnowledgeBaseConstructor([maxItems |-> KbMaxItems, enablePersistence |-> <<>>],
                                   NoKnowledgeFiles)

NextKnowledge ==
  \/ KnowledgeInitialize
  \/ AddKnowledge
  \/ AddKnowledgeItems
  \/ AddRelationship
  \/ GetKnowledge
  \/ GetRelationship
  \/ RemoveKnowledge
  \/ UpdateKnowledge
  \/ KnowledgeGetStats
  \/ KnowledgeRestart
  \/ Return
  \/ Tick

SpecKnowledge == InitKnowledge /\ [][NextKnowledge]_vars

\* ------------------------------------------------------------------------
\* SpecGraph: the queries over the items and relationships that
\* addKnowledgeItems and addRelationship build
\* ------------------------------------------------------------------------

NextGraph ==
  \/ KnowledgeInitialize
  \/ AddKnowledgeItems
  \/ AddRelationship
  \/ QueryKnowledge
  \/ FindRelatedItems
  \/ Return

SpecGraph ==
  /\ InitStore(NoConfig, KbMaxCalls)
  /\ kb = KnowledgeBaseConstructor([maxItems |-> KbMaxItems + 1, enablePersistence |-> <<>>],
                                   NoKnowledgeFiles)
  /\ [][NextGraph]_vars

\* ------------------------------------------------------------------------
\* SpecMiss: one PatternStorage and one KnowledgeBase, and the calls that
\* look an id up before they change anything
\* ------------------------------------------------------------------------

NextMiss ==
  \/ Initialize
  \/ SavePattern({Candidate})
  \/ UpdatePattern({DataUpdate})
  \/ RestorePattern
  \/ KnowledgeInitialize
  \/ AddKnowledgeItems
  \/ AddRelationship
  \/ UpdateKnowledge
  \/ RemoveKnowledge
  \/ Return

SpecMiss ==
  /\ InitStore(SmallConfig, MaxCalls)
  /\ kb = KnowledgeBaseConstructor([maxItems |-> KbMaxItems + 1, enablePersistence |-> <<>>],
                                   NoKnowledgeFiles)
  /\ [][NextMiss]_vars

\* ------------------------------------------------------------------------
\* SpecOverlap: one KnowledgeBase with a small maxItems and persistence;
\* addKnowledge is called while earlier addKnowledge calls wait for their
\* file operations, which complete in any order
\* ------------------------------------------------------------------------

\* addKnowledge from the call to its first file operation. The call waits
\* at fs.remove of removeKnowledgeFile, when the item that pruneOldItems
\* chose has left the Map (line 1090), or at fs.writeJSON of persistKnowledge,
\* when items.set and the index updates are done (line 889); without
\* persistence no file operation is awaited
AddKnowledgeStart ==
  LET addKnowledgeStart(k, item) ==
        IF ~kbEnsureInitialized(k) THEN [s |-> k, threw |-> TRUE, waits |-> <<>>]
        ELSE IF ~k.config.enablePersistence
        THEN [s |-> addKnowledge(k, item).s, threw |-> FALSE, waits |-> <<>>]
        ELSE IF Len(k.items) >= k.config.maxItems /\ k.items # <<>>
        THEN LET pruned == pruneOldItems(k).s
                 removed == CHOOSE id \in MapKeys(k.items) : ~MapHas(pruned.items, id)
             IN  [s |-> [pruned EXCEPT !.files = k.files], threw |-> FALSE,
                  waits |-> <<[item |-> item, at |-> "remove", id |-> removed]>>]
        ELSE [s |-> updateTagIndex(
                      updatePatternIndex([k EXCEPT !.items = MapSet(@, item)], item), item),
              threw |-> FALSE,
              waits |-> <<[item |-> item, at |-> "writeJSON", id |-> item.id]>>]
  IN  \E item \in {Item(id, ItemTags[id], now) : id \in DOMAIN ItemTags} :
        LET r == addKnowledgeStart(kb, item)
        IN  /\ last = NoCall
            /\ kb' = r.s
            /\ IF r.threw THEN UNCHANGED budget ELSE budget > 0 /\ budget' = budget - 1
            /\ suspended' = suspended \o r.waits
            /\ last' = IF r.waits # <<>> THEN last
                       ELSE [op |-> "addKnowledge", args |-> <<item>>, threw |-> r.threw,
                             ret |-> <<>>]
            /\ UNCHANGED <<config, initialized, patterns, versions, files, now, learningModel>>

\* the file operation of a waiting addKnowledge completes and the call runs
\* on: after fs.remove to items.set, the index updates and fs.writeJSON,
\* after fs.writeJSON to its end
AddKnowledgeResume ==
  LET addKnowledgeResume(k, call) ==
        IF call.at = "remove"
        THEN LET k1 == [removeKnowledgeFile(k, call.id) EXCEPT
                          !.items = MapSet(@, call.item)]
             IN  [s |-> updateTagIndex(updatePatternIndex(k1, call.item), call.item),
                  waits |-> <<[call EXCEPT !.at = "writeJSON", !.id = call.item.id]>>]
        ELSE [s |-> persistKnowledge(k, call.item), waits |-> <<>>]
  IN  \E i \in 1..Len(suspended) :
        LET r == addKnowledgeResume(kb, suspended[i])
        IN  /\ r.waits = <<>> => last = NoCall
            /\ kb' = r.s
            /\ suspended' = SubSeq(suspended, 1, i - 1) \o r.waits
                              \o SubSeq(suspended, i + 1, Len(suspended))
            /\ last' = IF r.waits # <<>> THEN last
                       ELSE [op |-> "addKnowledge", args |-> <<suspended[i].item>>,
                             threw |-> FALSE, ret |-> <<>>]
            /\ UNCHANGED <<config, initialized, patterns, versions, files, now, budget,
                           learningModel>>

NextOverlap ==
  \/ KnowledgeInitialize
  \/ AddKnowledgeStart
  \/ AddKnowledgeResume
  \/ Return

SpecOverlap == InitKnowledge /\ [][NextOverlap]_vars

\* ------------------------------------------------------------------------
\* SpecExtract: extractKnowledge, which reads nothing of the KnowledgeBase
\* and changes nothing, over the patterns and the clock
\* ------------------------------------------------------------------------

\* analyzeRelationships is private and a function of the items alone
AnalyzeRelationships ==
  LET \* the one item that extractKnowledge gives for the pattern, if any
      Extracted(pattern, id, t) == extractKnowledge(pattern, id, t).extractedItems
      \* lists of items for analyzeRelationships: those a caller adds, which have
      \* the tags [a, b], [a, c] and [c], and items extracted from two patterns
      AnalyzeInputs ==
        ItemListInputs \cup
        {Extracted(p1, "k1", now) \o Extracted(p2, "k2", now) :
           p1, p2 \in {p \in ExtractInputs : Extracted(p, "k1", now) # <<>>}}
  IN  \E items \in AnalyzeInputs :
        KnowledgeCall("analyzeRelationships", <<items>>,
                      Ok(kb, <<analyzeRelationships(items, RelationshipIds)>>))

NextExtract ==
  \/ ExtractKnowledge
  \/ AnalyzeRelationships
  \/ Return
  \/ Tick

SpecExtract == InitKnowledge /\ [][NextExtract]_vars

\* ------------------------------------------------------------------------
\* SpecModel: one LearningModel, new LearningModel(), and at most MaxCalls
\* calls that change it or its directory
\* ------------------------------------------------------------------------
\* the PatternFeatures of the tests, features cut to two numbers; confidence
\* is in tenths
Features(id, features, label, confidence, frequency) ==
  [id |-> id, features |-> features, label |-> label,
   metadata |-> [confidence |-> confidence, frequency |-> frequency, timestamp |-> 1]]

\* the two patterns of the tests, one of a third class and one with three
\* numbers
FeatureListInputs ==
  {<<Features("1", <<1, 2>>, "class1", 9, 5)>>,
   <<Features("1", <<1, 2>>, "class1", 9, 5), Features("2", <<2, 1>>, "class2", 8, 3)>>,
   <<Features("3", <<1, 2>>, "class3", 5, 1)>>,
   <<Features("4", <<1, 2, 3>>, "class1", 9, 10)>>}

\* a call on the LearningModel; one that changes it or its directory uses
\* the budget
ModelCall(op, args, r) ==
  /\ last = NoCall
  /\ learningModel' = r.lm
  /\ IF r.lm = learningModel THEN UNCHANGED budget
     ELSE budget > 0 /\ budget' = budget - 1
  /\ last' = [op |-> op, args |-> args, threw |-> r.threw, ret |-> r.ret]
  /\ UNCHANGED <<config, initialized, patterns, versions, files, now, kb, suspended>>

ModelInitialize ==
  \E features \in FeatureListInputs :
    ModelCall("LearningModel.initialize", <<features>>,
              [lm |-> lmInitialize(learningModel, features), threw |-> FALSE, ret |-> <<>>])

ClassifyPattern ==
  \E features \in FeatureListInputs : \E i \in 1..Len(features) :
    ModelCall("classifyPattern", <<features[i]>>, classifyPattern(learningModel, features[i]))

ApplyWeights ==
  LET \* the pats of the applyWeights tests, and pats seen more than
      \* ten times
      Weighed ==
        {Features("1", <<1, 2>>, "class1", 9, 10), Features("2", <<2, 1>>, "class2", 5, 1),
         Features("3", <<1, 2>>, "class1", 9, 11), Features("4", <<1, 2>>, "class2", 5, 20),
         Features("5", <<1, 2>>, "class1", 8, 5)}
  IN  \E n \in 0..3 : \E pats \in [1..n -> Weighed] :
        ModelCall("applyWeights", <<pats>>,
                  [lm |-> learningModel, threw |-> FALSE, ret |-> applyWeights(pats)])

Train ==
  \E pats \in FeatureListInputs :
    ModelCall("train", <<pats>>, train(learningModel, pats, now))

UpdateModel ==
  \E pats \in FeatureListInputs, incremental \in BOOLEAN :
    ModelCall("updateModel", <<pats, incremental>>,
              updateModel(learningModel, pats, incremental, now))

SaveModel == ModelCall("saveModel", <<>>, saveModel(learningModel))

LoadModel == ModelCall("loadModel", <<>>, loadModel(learningModel))

Dispose ==
  ModelCall("dispose", <<>>, [lm |-> dispose(learningModel), threw |-> FALSE, ret |-> <<>>])

NextModel ==
  \/ ModelInitialize
  \/ ClassifyPattern
  \/ ApplyWeights
  \/ Train
  \/ UpdateModel
  \/ SaveModel
  \/ LoadModel
  \/ Dispose
  \/ Return
  \/ Tick

SpecModel == InitWith(NoConfig, MaxCalls) /\ [][NextModel]_vars

\* ------------------------------------------------------------------------
\* Properties
\* ------------------------------------------------------------------------
Newest(vs) == vs[Len(vs)]

Labels == {learningModel.labelMap[i] : i \in 1..Len(learningModel.labelMap)}

\* the patterns persisted in the directory
Persisted == {files[f].json : f \in {g \in DOMAIN files : files[g].kind = "pattern"}}

\* expiresAt is earlier than t
Passed(pattern, t) == pattern.expiresAt # undefined /\ pattern.expiresAt < t

\* C1: after an addPattern(c) that completes, the label set of the classifier
\* contains c.type, and the type of every stored pattern.
C1_LabelSetCoversTypes ==
  (last.op = "addPattern" /\ ~last.threw) =>
     /\ last.args[1].type \in Labels
     /\ \A i \in 1..Len(patterns) : patterns[i].type \in Labels

\* C2: initialize() on a directory holding expired and non-expired patterns
\* completes, leaves the store initialized, and leaves in the store exactly
\* the persisted patterns whose expiresAt has not passed, the histories of
\* the others being purged.
C2_InitializePurgesExpired ==
  [][(last'.op = "initialize" /\ ~initialized) =>
       /\ ~last'.threw
       /\ initialized'
       /\ MapKeys(patterns') = {p.id : p \in {q \in Persisted : ~Passed(q, now)}}
       /\ DOMAIN versions' \subseteq MapKeys(patterns')]_vars

\* C3: the id that save assigns depends on (type, data) only: a candidate
\* with the type and data of the one just saved has the id that was returned,
\* whatever its metadata and expiresAt.
C3_IdOfTypeAndData ==
  (last.op = "savePattern" /\ ~last.threw) =>
     \A c \in Candidates :
        (c.type = last.args[1].type /\ c.data = last.args[1].data)
           => /\ savePattern(Store, c, now).ret[1].id = last.ret[1].id
              /\ Len(savePattern(Store, c, now).s.patterns) = Len(patterns)

\* the retained history of id, empty when there is none
History(vs, id) == IF id \in DOMAIN vs THEN vs[id] ELSE <<>>

\* a history after one version was appended to vs and the limit applied
Appended(vs, new) ==
  /\ new # <<>>
  /\ \/ Len(vs) < config.maxVersions /\ new = Append(vs, Newest(new))
     \/ Len(vs) >= config.maxVersions /\ new = Append(Tail(vs), Newest(new))

\* the call just made was one of ops, on a stored record, and returned one
Mutated(ops) ==
  /\ last'.op \in ops
  /\ ~last'.threw
  /\ last'.ret # <<>>
  /\ MapHas(patterns, last'.ret[1].id)

\* C4: in every reachable state the version numbers of each retained
\* history are at least 1 and strictly increasing in list order, also after
\* the history has been trimmed at maxVersions.
C4_VersionsStrictlyIncreasing ==
  \A id \in DOMAIN versions :
     /\ \A i \in 1..Len(versions[id]) : versions[id][i].version >= 1
     /\ \A i \in 1..(Len(versions[id]) - 1) :
           versions[id][i].version < versions[id][i + 1].version

\* one save of the test pattern into the store s, then n updates, at time t
RECURSIVE SaveThenUpdates(_, _, _)
SaveThenUpdates(s, n, t) ==
  IF n = 0 THEN savePattern(s, Candidate, t).s
  ELSE updatePattern(SaveThenUpdates(s, n - 1, t), PatternIds[Candidate], DataUpdate, t).s

\* C5: after any save, update or restore each history holds at most
\* maxVersions versions, and a call that adds a version to a full history
\* drops its oldest one and no other; in a store just initialized empty, one
\* save followed by 11 updates leaves exactly 10 versions under the default
\* maxVersions = 10.
C5_AtMostMaxVersionsFifo ==
  [][/\ \A id \in DOMAIN versions' : Len(versions'[id]) <= config.maxVersions
     /\ Mutated({"savePattern", "updatePattern", "restorePattern"}) =>
           Appended(History(versions, last'.ret[1].id),
                    History(versions', last'.ret[1].id))
     /\ (last'.op = "initialize" /\ initialized' /\ patterns' = <<>>
           /\ config.maxVersions = DefaultMaxVersions) =>
           Len(SaveThenUpdates(Store', 11, now).versions[PatternIds[Candidate]]) = 10]_vars

\* a save and 11 updates (or restores) were made: the history is full and
\* version 1 was dropped from it
C5_Witness ==
  /\ last.op = "updatePattern"
  /\ \E id \in DOMAIN versions :
        /\ Len(versions[id]) = DefaultMaxVersions
        /\ Head(versions[id]).version = 2
        /\ Newest(versions[id]).version = 11

\* C6: a save to an id already stored and a successful update append one
\* version whose data and metadata are those of the record as it was before
\* the call; a first save of an id leaves every history as it was.
C6_SnapshotBeforeReplace ==
  [][/\ Mutated({"savePattern", "updatePattern"}) =>
          LET id == last'.ret[1].id
              before == MapGet(patterns, id)
          IN  /\ Appended(History(versions, id), History(versions', id))
              /\ Newest(versions'[id]).data = before.data
              /\ Newest(versions'[id]).metadata = before.metadata
     /\ (last'.op = "savePattern" /\ ~last'.threw
           /\ ~MapHas(patterns, last'.ret[1].id)) => versions' = versions]_vars

\* an update has replaced the data, and the newest version holds the data
\* that was replaced
C6_Witness ==
  /\ last.op = "updatePattern"
  /\ last.ret # <<>>
  /\ last.ret[1].data = << <<"key", "updated">> >>
  /\ Newest(versions[last.ret[1].id]).data = Value

\* C7: after restore(id, v) succeeds the current record has the data and
\* metadata of version v as retained before the call, the state current
\* before the call is the newest version of the history, and restoring that
\* newest version brings the state current before the call back.
C7_RestoreKeepsCurrentState ==
  [][Mutated({"restorePattern"}) =>
       LET id == last'.ret[1].id
           before == MapGet(patterns, id)
           v == Find(versions[id], last'.args[2])[1]
           newest == Newest(versions'[id])
           back == restorePattern(Store', id, newest.version, now).ret[1]
       IN  /\ last'.ret[1].data = v.data
           /\ last'.ret[1].metadata = v.metadata
           /\ newest.data = before.data
           /\ newest.metadata = before.metadata
           /\ back.data = before.data
           /\ back.metadata = before.metadata]_vars

\* the second of two saves of a candidate: the record stored is the one the
\* first save stored
Resave ==
  /\ Mutated({"savePattern"})
  /\ MapGet(patterns, last'.ret[1].id).data = last'.args[1].data
  /\ MapGet(patterns, last'.ret[1].id).metadata = last'.args[1].metadata

\* C8 as claimed: saving the same candidate twice without modification
\* yields the same id both times and creates no new version, the history
\* after the second save being the history after the first.
C8_ResaveCreatesNoVersion ==
  [][Resave =>
       /\ last'.ret[1].id = MapGet(patterns, last'.ret[1].id).id
       /\ History(versions', last'.ret[1].id) = History(versions, last'.ret[1].id)]_vars

\* C8 as amended: saving the same candidate twice without modification
\* yields the same id both times, and the second save appends exactly one
\* version, numbered one more than the length of the history and holding the
\* data and metadata the first save stored, the oldest version being dropped
\* when the history was full.
C8_ResaveAppendsOneVersion ==
  [][Resave =>
       LET id == last'.ret[1].id
           old == History(versions, id)
           pushed == Append(old, [patternId |-> id, version |-> Len(old) + 1,
                                  data |-> last'.args[1].data,
                                  metadata |-> last'.args[1].metadata,
                                  timestamp |-> now])
       IN  /\ id = MapGet(patterns, id).id
           /\ Len(patterns') = Len(patterns)
           /\ History(versions', id) =
                IF Len(pushed) > config.maxVersions THEN Tail(pushed) ELSE pushed]_vars

\* a candidate was saved again, and the newest version is the record of the
\* earlier save
C8_Witness ==
  /\ last.op = "savePattern"
  /\ last.ret # <<>>
  /\ last.ret[1].id \in DOMAIN versions
  /\ Newest(versions[last.ret[1].id]).data = last.args[1].data
  /\ Newest(versions[last.ret[1].id]).metadata = last.args[1].metadata

\* C9: a save, update or restore of a stored id leaves createdAt as it was
\* and sets updatedAt to the time of the call; a first insertion sets both
\* to the time of the call.
C9_CreatedAtKept ==
  [][/\ Mutated({"savePattern", "updatePattern", "restorePattern"}) =>
          /\ last'.ret[1].createdAt = MapGet(patterns, last'.ret[1].id).createdAt
          /\ last'.ret[1].updatedAt = now
          /\ MapGet(patterns', last'.ret[1].id) = last'.ret[1]
     /\ (last'.op = "savePattern" /\ ~last'.threw
           /\ ~MapHas(patterns, last'.ret[1].id)) =>
          /\ last'.ret[1].createdAt = now
          /\ last'.ret[1].updatedAt = now]_vars

\* C10: get(id) of a stored pattern whose expiresAt is earlier than the
\* current time returns null and removes the pattern and its history, so
\* that queries and getStats no longer count it; get(id) of a stored pattern
\* that has not expired returns it and leaves the store unchanged.
C10_GetEnforcesExpiration ==
  [][(last'.op = "getPattern" /\ ~last'.threw /\ MapHas(patterns, last'.args[1])) =>
       LET id == last'.args[1]
           pattern == MapGet(patterns, id)
       IN  IF Passed(pattern, now)
           THEN /\ last'.ret = <<>>
                /\ ~MapHas(patterns', id)
                /\ id \notin DOMAIN versions'
                /\ \A q \in Queries :
                      \A i \in 1..Len(queryPatterns(Store', q, now).ret) :
                         queryPatterns(Store', q, now).ret[i].id # id
                /\ getStats(Store').ret[1].totalPatterns = Len(patterns) - 1
           ELSE /\ last'.ret = <<pattern>>
                /\ Store' = Store]_vars

\* C11: delete(id) returns true exactly when id was stored; afterwards the
\* pattern and its history are gone from memory and from the directory (get
\* returns null, getVersions returns the empty list, a later save of the id
\* has no history), and every other pattern and history is unchanged.
C11_DeleteRemovesPatternAndHistory ==
  [][(last'.op = "deletePattern" /\ ~last'.threw) =>
       LET id == last'.args[1]
       IN  /\ last'.ret = <<MapHas(patterns, id)>>
           /\ getPattern(Store', id, now).ret = <<>>
           /\ getPatternVersions(Store', id).ret = <<>>
           /\ getPatternFilePath(id) \notin DOMAIN files'
           /\ getVersionsFilePath(id) \notin DOMAIN files'
           /\ \A c \in Candidates :
                 PatternIds[c] = id =>
                    History(savePattern(Store', c, now).s.versions, id) = <<>>
           /\ \A other \in MapKeys(patterns) \ {id} :
                 /\ MapHas(patterns', other)
                 /\ MapGet(patterns', other) = MapGet(patterns, other)
                 /\ History(versions', other) = History(versions, other)
           /\ MapKeys(patterns') \subseteq MapKeys(patterns)]_vars

\* a stored pattern was deleted and another one is left in the store
C11_Witness ==
  /\ last.op = "deletePattern"
  /\ last.ret = <<TRUE>>
  /\ ~MapHas(patterns, last.args[1])
  /\ Len(patterns) >= 1

PatternStorageOps ==
  {"savePattern", "getPattern", "updatePattern", "deletePattern", "queryPatterns",
   "getPatternVersions", "restorePattern", "getStats"}

KnowledgeBaseOps ==
  {"extractKnowledge", "addKnowledge", "addKnowledgeItems", "addRelationship",
   "getKnowledge", "getRelationship", "queryKnowledge", "findRelatedItems",
   "removeKnowledge", "updateKnowledge", "KnowledgeBase.getStats"}

\* C12: every public operation of PatternStorage and of KnowledgeBase that is
\* called before the component's initialize() has completed throws and
\* leaves the component's state as it was.
C12_UninitializedCallThrows ==
  [][/\ (last'.op \in PatternStorageOps /\ ~initialized) =>
          (last'.threw /\ Store' = Store)
     /\ (last'.op \in KnowledgeBaseOps /\ ~kb.initialized) =>
          (last'.threw /\ kb' = kb)]_vars

ItemIds(k) == {k.items[i].id : i \in 1..Len(k.items)}

\* C13: in every reachable state of the KnowledgeBase, fromId and toId of
\* every stored relationship are ids of items that the KnowledgeBase holds.
C13_RelationshipEndpointsExist ==
  \A i \in 1..Len(kb.relationships) :
    /\ kb.relationships[i].fromId \in ItemIds(kb)
    /\ kb.relationships[i].toId \in ItemIds(kb)

Relationships(k) == {k.relationships[i] : i \in 1..Len(k.relationships)}

References(rel, id) == rel.fromId = id \/ rel.toId = id

\* C14: removeKnowledge(id) returns true exactly when id is an item; then the
\* item is absent afterwards, no relationship in memory has id as fromId or
\* toId, and the relationships that do not reference id and the other items
\* are as before; when id is not an item nothing changes.
C14_RemoveCascades ==
  [][(last'.op = "removeKnowledge" /\ ~last'.threw) =>
       LET id == last'.args[1]
       IN  /\ last'.ret = <<id \in ItemIds(kb)>>
           /\ IF id \in ItemIds(kb)
              THEN /\ id \notin ItemIds(kb')
                   /\ getKnowledge(kb', id).ret = <<>>
                   /\ \A rel \in Relationships(kb') : ~References(rel, id)
                   /\ Relationships(kb') =
                        {rel \in Relationships(kb) : ~References(rel, id)}
                   /\ Len(kb'.relationships) = Cardinality(Relationships(kb'))
                   /\ ItemIds(kb') = ItemIds(kb) \ {id}
                   /\ \A other \in ItemIds(kb') :
                         MapGet(kb'.items, other) = MapGet(kb.items, other)
              ELSE kb' = kb]_vars

\* an item was removed with a relationship that referenced it (still in
\* relationships.json), while another item and another relationship stay
C14_Witness ==
  /\ last.op = "removeKnowledge"
  /\ last.ret = <<TRUE>>
  /\ kb.files.relationships # <<>>
  /\ \E i \in 1..Len(kb.files.relationships[1]) :
        /\ References(kb.files.relationships[1][i], last.args[1])
        /\ kb.files.relationships[1][i] \notin Relationships(kb)
  /\ kb.relationships # <<>>
  /\ kb.items # <<>>

\* C15: with maxItems >= 1 and calls made one after another, the number of
\* items the KnowledgeBase holds never exceeds maxItems.
C15_AtMostMaxItems ==
  kb.config.maxItems >= 1 => Len(kb.items) <= kb.config.maxItems

\* addKnowledgeItems was given more items than maxItems and the
\* KnowledgeBase is full
C15_Witness ==
  /\ last.op = "addKnowledgeItems"
  /\ ~last.threw
  /\ Len(last.args[1]) > kb.config.maxItems
  /\ Len(kb.items) = kb.config.maxItems
  /\ kb.config.maxItems >= 1

\* C16: addKnowledge(item) called while the KnowledgeBase holds maxItems
\* items evicts exactly one of them, one whose createdAt is the smallest,
\* together with the relationships that reference it; the other items stay
\* as they were and the added item is present afterwards. Below capacity
\* addKnowledge evicts nothing.
C16_AddEvictsOldest ==
  [][(last'.op = "addKnowledge" /\ ~last'.threw /\ kb.config.maxItems >= 1) =>
       LET item == last'.args[1]
       IN  /\ MapGet(kb'.items, item.id) = item
           /\ IF Len(kb.items) >= kb.config.maxItems
              THEN \E victim \in ItemIds(kb) :
                     /\ \A other \in ItemIds(kb) :
                           MapGet(kb.items, victim).createdAt
                             <= MapGet(kb.items, other).createdAt
                     /\ ItemIds(kb') = (ItemIds(kb) \ {victim}) \cup {item.id}
                     /\ Relationships(kb') =
                          {rel \in Relationships(kb) : ~References(rel, victim)}
                     /\ \A other \in ItemIds(kb) \ {victim, item.id} :
                           MapGet(kb'.items, other) = MapGet(kb.items, other)
              ELSE /\ ItemIds(kb') = ItemIds(kb) \cup {item.id}
                   /\ Relationships(kb') = Relationships(kb)
                   /\ \A other \in ItemIds(kb) \ {item.id} :
                         MapGet(kb'.items, other) = MapGet(kb.items, other)]_vars

\* the third state-changing call added an item to a full KnowledgeBase, and
\* a relationship written to relationships.json went with the evicted item
C16_Witness ==
  /\ last.op = "addKnowledge"
  /\ ~last.threw
  /\ budget = KbMaxCalls - 3
  /\ Len(kb.items) = kb.config.maxItems
  /\ last.args[1].id \in ItemIds(kb)
  /\ kb.files.relationships # <<>>
  /\ \E i \in 1..Len(kb.files.relationships[1]) :
        /\ kb.files.relationships[1][i] \notin Relationships(kb)
        /\ kb.files.relationships[1][i].fromId \notin ItemIds(kb)

\* C17: extractKnowledge never returns zero items for a pattern whose data
\* is not empty, whatever the pattern's type and the fields of its data.
C17_ExtractNeverEmpty ==
  (last.op = "extractKnowledge" /\ last.args[1].data # <<>>) =>
     Len(last.ret[1].extractedItems) >= 1

\* the data that the extractor of the pattern's type looks for is there
HasExtractorFields(pattern) ==
  CASE pattern.type = "behavioral" ->
         Has(pattern.data, "trigger") /\ Has(pattern.data, "action")
    [] pattern.type = "temporal" ->
         Get(pattern.data, "sequence") # <<>> /\ IsArray(Get(pattern.data, "sequence")[1])
    [] pattern.type = "sequential" ->
         Get(pattern.data, "steps") # <<>> /\ IsArray(Get(pattern.data, "steps")[1])
    [] pattern.type = "categorical" ->
         Has(pattern.data, "category") /\ Has(pattern.data, "items")
    [] OTHER -> TRUE

KindOf(type) ==
  CASE type = "behavioral" -> "rule"
    [] type = "temporal" -> "relationship"
    [] type = "sequential" -> "rule"
    [] type = "categorical" -> "concept"
    [] OTHER -> "fact"

\* C18: for a behavioral pattern with trigger and action, a temporal one
\* with a sequence array, a sequential one with a steps array, a categorical
\* one with category and items, and a pattern of any other type,
\* extractKnowledge gives exactly one item, of type rule, relationship,
\* rule, concept and fact respectively; the rule of a behavioral pattern
\* reads "When {trigger}, then {action}" and the fact reads as
\* JSON.stringify(data); the item has the pattern's id as patternId and the
\* pattern's confidence, frequency, source and all of its tags.
C18_ExtractOneItemOfFixedKind ==
  (last.op = "extractKnowledge" /\ HasExtractorFields(last.args[1])) =>
     LET pattern == last.args[1]
         items == last.ret[1].extractedItems
     IN  /\ Len(items) = 1
         /\ items[1].type = KindOf(pattern.type)
         /\ pattern.type = "behavioral" =>
               items[1].content =
                 <<87, 104, 101, 110>> \o <<32>>
                   \o Interpolate(Get(pattern.data, "trigger")[1])
                   \o <<44, 32>> \o <<116, 104, 101, 110>> \o <<32>>
                   \o Interpolate(Get(pattern.data, "action")[1])
         /\ KindOf(pattern.type) = "fact" =>
               items[1].content = JsonData(pattern.data)
         /\ items[1].patternId = pattern.id
         /\ items[1].metadata.confidence = pattern.metadata.confidence
         /\ items[1].metadata.frequency = pattern.metadata.frequency
         /\ items[1].metadata.sources = <<pattern.metadata.source>>
         /\ \A i \in 1..Len(pattern.metadata.tags) :
               Includes(items[1].metadata.tags, pattern.metadata.tags[i])

\* a behavioral pattern with trigger, action and two tags gave one rule
C18_Witness ==
  /\ last.op = "extractKnowledge"
  /\ last.args[1].type = "behavioral"
  /\ Len(last.args[1].metadata.tags) = 2
  /\ Len(last.ret[1].extractedItems) = 1
  /\ last.ret[1].extractedItems[1].type = "rule"

\* C19: extractKnowledge of a behavioral pattern with a trigger, an action
\* and a non-empty list of tags returns a non-empty list of relationships.
C19_BehavioralExtractionHasRelationships ==
  (/\ last.op = "extractKnowledge"
   /\ last.args[1].type = "behavioral"
   /\ Has(last.args[1].data, "trigger")
   /\ Has(last.args[1].data, "action")
   /\ last.args[1].metadata.tags # <<>>) =>
     Len(last.ret[1].relationships) > 0

TagSet(item) == {item.metadata.tags[i] : i \in 1..Len(item.metadata.tags)}

\* the relationships of a list that join the two items, in either direction
Between(rels, a, b) ==
  {i \in 1..Len(rels) : {rels[i].fromId, rels[i].toId} = {a.id, b.id}}

Occurs(text, str) ==
  LET lower(x) == [i \in 1..Len(x) |-> IF x[i] >= 65 /\ x[i] <= 90 THEN x[i] + 32 ELSE x[i]]
  IN  \E i \in 1..(Len(str) - Len(text) + 1) :
        SubSeq(lower(str), i, i + Len(text) - 1) = lower(text)

\* the score of an item under a query: the share of the requested tags that
\* the item has, or 1, times 6/5 and 11/10 for the text matches
TagAndTextScore(item, query) ==
  LET requested == Len(query.tags)
      matched == Len(SelectSeq(query.tags, LAMBDA tag : Includes(item.metadata.tags, tag)))
      tagScore == IF requested > 0 THEN <<matched, requested>> ELSE <<1, 1>>
      inContent == query.text # "" /\ Occurs(CharCodes[query.text], item.content)
      inData == query.text # ""
                  /\ Occurs(CharCodes[query.text], JsonData(item.structuredData))
  IN  <<tagScore[1] * (IF inContent THEN 6 ELSE 1) * (IF inData THEN 11 ELSE 1),
        tagScore[2] * (IF inContent THEN 5 ELSE 1) * (IF inData THEN 10 ELSE 1)>>

\* C21: every result of queryKnowledge has the relevanceScore
\* (requested tags the item has) / (requested tags), or 1 when no tags are
\* queried, times 1.2 if the text occurs in the content and times 1.1 if it
\* occurs in the serialized structured data, and the results are in
\* non-increasing order of relevanceScore
C21_RelevanceScoreOfTagsAndText ==
  [][(last'.op = "queryKnowledge" /\ ~last'.threw) =>
       LET query == last'.args[1]
           results == last'.ret
           Score(i) == results[i].relevanceScore
       IN  /\ \A i \in 1..Len(results) :
                LET expected == TagAndTextScore(results[i].item, query)
                IN  Score(i)[1] * expected[2] = expected[1] * Score(i)[2]
           /\ \A i \in 1..(Len(results) - 1) :
                Score(i)[1] * Score(i + 1)[2] >= Score(i + 1)[1] * Score(i)[2]]_vars

\* the ids at most n hops from id in the relationship graph of k, either
\* endpoint of a relationship being a neighbour of the other
RECURSIVE WithinHops(_, _, _)
WithinHops(k, id, n) ==
  IF n <= 0 THEN {id}
  ELSE LET near == WithinHops(k, id, n - 1)
           Ends(rel) == {rel.fromId, rel.toId}
       IN  near \cup UNION {Ends(k.relationships[i]) :
                              i \in {j \in 1..Len(k.relationships) :
                                       Ends(k.relationships[j]) \cap near # {}}}

\* the ids of the items that a findRelatedItems call has returned
ReturnedIds(call) == {call.ret[i].id : i \in 1..Len(call.ret)}

\* C22: findRelatedItems(itemId, maxDepth) returns exactly the existing
\* items between 1 and maxDepth hops from itemId in the undirected
\* relationship graph
C22_RelatedWithinMaxDepth ==
  [][(last'.op = "findRelatedItems" /\ ~last'.threw) =>
       ReturnedIds(last') =
         (WithinHops(kb, last'.args[1], last'.args[2]) \ {last'.args[1]}) \cap ItemIds(kb)]_vars

\* C23: findRelatedItems never returns the start item, whatever the cycles
\* through it and the relationships from it to itself
C23_StartItemNotReturned ==
  [][(last'.op = "findRelatedItems" /\ ~last'.threw) =>
       last'.args[1] \notin ReturnedIds(last')]_vars

\* a traversal from k1 that has returned items, k1 being on the cycle
\* k1 - k2 - k3 - k1
C23_Witness ==
  /\ last.op = "findRelatedItems"
  /\ last.args = <<"k1", 2>>
  /\ {<<rel.fromId, rel.toId>> : rel \in Relationships(kb)}
       = {<<"k1", "k2">>, <<"k2", "k3">>, <<"k3", "k1">>}
  /\ ReturnedIds(last) = {"k2", "k3"}

\* C24: no item is twice in the list that findRelatedItems returns
C24_NoItemReturnedTwice ==
  [][(last'.op = "findRelatedItems" /\ ~last'.threw) =>
       \A i, j \in 1..Len(last'.ret) : last'.ret[i].id = last'.ret[j].id => i = j]_vars

\* C21 (amended): for a query without relatedTo every result of
\* queryKnowledge has the relevanceScore (requested tags the item has) /
\* (requested tags), or 1 when no tags are queried, times 1.2 if the text
\* occurs in the content and times 1.1 if it occurs in the serialized
\* structured data; for every query the results are in non-increasing order
\* of relevanceScore
C21_RelevanceScoreWithoutRelatedTo ==
  [][(last'.op = "queryKnowledge" /\ ~last'.threw) =>
       LET query == last'.args[1]
           results == last'.ret
           Score(i) == results[i].relevanceScore
       IN  /\ query.relatedTo = "" =>
                \A i \in 1..Len(results) :
                  LET expected == TagAndTextScore(results[i].item, query)
                  IN  Score(i)[1] * expected[2] = expected[1] * Score(i)[2]
           /\ \A i \in 1..(Len(results) - 1) :
                Score(i)[1] * Score(i + 1)[2] >= Score(i + 1)[1] * Score(i)[2]]_vars

\* a query for two tags and a text that is in the content and in the
\* structured data of each item: the item with both tags comes first with
\* 1 * 1.2 * 1.1, the item with one of them second with half of it
C21_Witness ==
  /\ last.op = "queryKnowledge"
  /\ last.args[1].tags = <<"a", "b">>
  /\ last.args[1].text = "e"
  /\ Len(last.ret) = 2
  /\ last.ret[1].item.id = "k1" /\ last.ret[1].relevanceScore = <<33, 25>>
  /\ last.ret[2].item.id = "k2" /\ last.ret[2].relevanceScore = <<33, 50>>

\* the classifier has a model and its flag is set
Ready(lm) == lm.isInitialized /\ lm.model # <<>>

\* C25: a LearningModel is not ready when constructed, becomes ready by
\* initialize and by a loadModel that completes, stops being ready by
\* dispose, and no other call changes that; classifyPattern, train,
\* updateModel and saveModel throw the must-be-initialized error exactly
\* when it is not ready
C25_NotReadyOutsideInitializeToDispose ==
  /\ ~Ready(learningModel)
  /\ [][LET op == last'.op
            notReadyError == last'.threw /\ last'.ret = <<"must be initialized">>
        IN  /\ op \in {"classifyPattern", "train", "updateModel", "saveModel"} =>
                 (notReadyError <=> ~Ready(learningModel))
            /\ Ready(learningModel') <=>
                 IF op = "LearningModel.initialize" \/ (op = "loadModel" /\ ~last'.threw)
                 THEN TRUE
                 ELSE IF op = "dispose" THEN FALSE
                 ELSE Ready(learningModel)]_vars

\* train is rejected on a classifier that was initialized and then disposed
C25_Witness ==
  /\ last.op = "train"
  /\ last.threw /\ last.ret = <<"must be initialized">>
  /\ budget = MaxCalls - 2
  /\ learningModel.files = <<>>
  /\ learningModel.labelMap # <<>>

\* C26: initialize on a LearningModel that is not initialized sets the
\* label set to the distinct labels of its features; initialize on one
\* that is initialized, classifyPattern, train and updateModel leave the
\* label map (which gives each label its index), the input size and the
\* model as they are
C26_LabelSetFixedAtInitialize ==
  [][LET op == last'.op
         features == last'.args[1]
         Same(f) == learningModel'[f] = learningModel[f]
     IN  /\ (op = "LearningModel.initialize" /\ ~learningModel.isInitialized) =>
               /\ {learningModel'.labelMap[i] : i \in 1..Len(learningModel'.labelMap)}
                    = {features[i].label : i \in 1..Len(features)}
               /\ \A i, j \in 1..Len(learningModel'.labelMap) :
                    learningModel'.labelMap[i] = learningModel'.labelMap[j] => i = j
         /\ (\/ op = "LearningModel.initialize" /\ learningModel.isInitialized
             \/ op \in {"classifyPattern", "train", "updateModel"}) =>
               Same("labelMap") /\ Same("inputSize") /\ Same("model")]_vars

\* a model initialized for class1 and class2 has been trained with a
\* pattern of class3
C26_Witness ==
  /\ last.op = "train"
  /\ ~last.threw
  /\ last.args[1][1].label = "class3"
  /\ learningModel.labelMap = <<"class1", "class2">>
  /\ learningModel.trainingHistory # <<>>

\* C27: addPattern on an initialized system whose LearningModel is not
\* ready, so that updateModel throws, does not throw; it leaves the
\* LearningModel ready, with one live model, the labels of all the patterns
\* of the store, and the training history of one train call made now
C27_FailedUpdateRebuildsClassifier ==
  [][(/\ last'.op = "addPattern"
      /\ initialized /\ kb.initialized
      /\ ~Ready(learningModel)) =>
       /\ ~last'.threw
       /\ Ready(learningModel')
       /\ learningModel'.live = 1
       /\ {learningModel'.labelMap[i] : i \in 1..Len(learningModel'.labelMap)}
            = {patterns'[i].type : i \in 1..Len(patterns')}
       /\ learningModel'.trainingHistory =
            [e \in 1..learningModel'.epochs |-> [epoch |-> e, timestamp |-> now]]]_vars

\* after a shutdown, addPattern has rebuilt the classifier over a store of
\* two types
C27_Witness ==
  /\ last.op = "addPattern"
  /\ ~last.threw
  /\ learningModel.labelMap = <<"behavioral", "temporal">>
  /\ learningModel.trainingHistory # <<>>
  /\ learningModel.trainingHistory[1].timestamp = now

\* C28: at most one tf model that was created has not been disposed, and
\* none when the LearningModel holds no model (as after dispose and
\* shutdown)
C28_AtMostOneLiveModel ==
  /\ learningModel.live <= 1
  /\ learningModel.model = <<>> => learningModel.live = 0

\* C29: train and updateModel keep the training history that they find
\* as a prefix of the one they leave, and a train call that completes
\* appends one entry for each of its epochs, numbered from 1 in order
C29_TrainingHistoryAppendOnly ==
  [][last'.op \in {"train", "updateModel"} =>
       LET before == learningModel.trainingHistory
           after == learningModel'.trainingHistory
           epochs == learningModel.epochs
       IN  /\ Len(after) >= Len(before)
           /\ SubSeq(after, 1, Len(before)) = before
           /\ (last'.op = "train" /\ ~last'.threw) =>
                /\ Len(after) = Len(before) + epochs
                /\ \A e \in 1..epochs : after[Len(before) + e].epoch = e]_vars

\* how many entries of the list are x
Count(list, x) == Cardinality({i \in 1..Len(list) : list[i] = x})

\* C30: applyWeights returns the patterns it is given, each once for each
\* time it is given, with weight 0.7 * confidence + 0.3 * min(frequency /
\* 10, 1) (in thousandths here), which is 0.7 * confidence + 0.3 from
\* frequency 10 on, in non-increasing order of weight
C30_ApplyWeightsRanksByWeight ==
  last.op = "applyWeights" =>
    LET given == last.args[1]
        weighted == last.ret
        returned == [i \in 1..Len(weighted) |-> weighted[i].originalFeatures]
    IN  /\ Len(weighted) = Len(given)
        /\ \A i \in 1..Len(given) : Count(returned, given[i]) = Count(given, given[i])
        /\ \A i \in 1..Len(weighted) :
             LET confidence == returned[i].metadata.confidence
                 frequency == returned[i].metadata.frequency
             IN  /\ weighted[i].id = returned[i].id
                 /\ frequency <= 10 => weighted[i].weight = 70 * confidence + 30 * frequency
                 /\ frequency >= 10 => weighted[i].weight = 70 * confidence + 300
        /\ \A i \in 1..(Len(weighted) - 1) : weighted[i].weight >= weighted[i + 1].weight

\* three patterns given in another order than that of their weights, one
\* of them seen eleven times
C30_Witness ==
  /\ last.op = "applyWeights"
  /\ [i \in 1..Len(last.args[1]) |-> last.args[1][i].id] = <<"2", "3", "5">>
  /\ [i \in 1..Len(last.ret) |-> last.ret[i].id] = <<"3", "5", "2">>
  /\ [i \in 1..Len(last.ret) |-> last.ret[i].weight] = <<930, 710, 380>>

\* C33: queryPatterns(query) returns exactly the stored patterns that meet
\* every criterion the query supplies (type, all of the tags, minimum
\* confidence, minimum frequency, createdAt within the bounds, expiresAt not
\* earlier than the current time when notExpired is requested), in the
\* insertion order of the store, and leaves the store unchanged.
C33_QueryReturnsExactlyMatching ==
  [][(last'.op = "queryPatterns" /\ ~last'.threw) =>
       LET query == last'.args[1]
           Satisfies(p) ==
             /\ query.type # "" => p.type = query.type
             /\ \A i \in 1..Len(query.tags) :
                   \E j \in 1..Len(p.metadata.tags) : p.metadata.tags[j] = query.tags[i]
             /\ query.minConfidence # undefined => p.metadata.confidence >= query.minConfidence
             /\ query.minFrequency # undefined => p.metadata.frequency >= query.minFrequency
             /\ query.createdAfter # undefined => p.createdAt >= query.createdAfter
             /\ query.createdBefore # undefined => p.createdAt <= query.createdBefore
             /\ query.notExpired => ~Passed(p, now)
       IN  /\ last'.ret = SelectSeq(patterns, Satisfies)
           /\ Store' = Store]_vars

\* the relationships of relationships.json, none when the file does not exist
PersistedRelationships(k) ==
  IF k.files.relationships = <<>> THEN {}
  ELSE {k.files.relationships[1][i] : i \in 1..Len(k.files.relationships[1])}

\* C35: with persistence enabled, after every completed call on an
\* initialized KnowledgeBase the relationships of relationships.json are
\* those in memory, so that a KnowledgeBase initialized over the directory
\* holds the same relationships; a relationship deleted by the cascade of
\* removeKnowledge does not come back.
C35_PersistedRelationshipsAreThoseInMemory ==
  (kb.initialized /\ kb.config.enablePersistence) =>
     /\ PersistedRelationships(kb) = Relationships(kb)
     /\ \A order \in Readdir(kb.files.knowledge) :
           Relationships(kbInitialize(KnowledgeBaseConstructor(NoKnowledgeConfig, kb.files),
                                      order).s) = Relationships(kb)

\* C36: the tag index maps a tag to exactly the ids of the stored items that
\* carry the tag, and the pattern index maps a pattern id to exactly the ids
\* of the stored items with that patternId.
C36_IndicesAgreeWithItems ==
  LET Tagged(tag) ==
        {kb.items[i].id : i \in {j \in 1..Len(kb.items) :
                                   \E n \in 1..Len(kb.items[j].metadata.tags) :
                                      kb.items[j].metadata.tags[n] = tag}}
      OfPattern(patternId) ==
        {kb.items[i].id : i \in {j \in 1..Len(kb.items) : kb.items[j].patternId = patternId}}
      AllTags == UNION {TagSet(kb.items[i]) : i \in 1..Len(kb.items)}
      AllPatternIds == {kb.items[i].patternId : i \in 1..Len(kb.items)}
  IN  /\ DOMAIN kb.tagIndex = AllTags
      /\ \A tag \in DOMAIN kb.tagIndex : kb.tagIndex[tag] = Tagged(tag)
      /\ DOMAIN kb.patternIndex = AllPatternIds
      /\ \A p \in DOMAIN kb.patternIndex : kb.patternIndex[p] = OfPattern(p)

\* C37: addPattern called again with a candidate whose pattern is stored
\* leaves the KnowledgeBase with as many items as before, and after every
\* addPattern no two knowledge items have the same patternId.
C37_AddPatternIdempotentOnKnowledge ==
  [][(last'.op = "addPattern" /\ ~last'.threw) =>
       /\ MapHas(patterns, PatternIds[last'.args[1]]) => Len(kb'.items) = Len(kb.items)
       /\ \A i, j \in 1..Len(kb'.items) :
             kb'.items[i].patternId = kb'.items[j].patternId => i = j]_vars

\* C39: queryKnowledge with relatedTo = x returns exactly the items that a
\* relationship joins to x, in either direction, and the relevanceScore of
\* each is its score for tags and text times the strength of a relationship
\* that joins that item to x.
C39_RelatedToScaledByJoiningStrength ==
  (last.op = "queryKnowledge" /\ ~last.threw /\ last.args[1].relatedTo # "") =>
     LET x == last.args[1].relatedTo
         Joining(item) ==
           {rel \in Relationships(kb) : {rel.fromId, rel.toId} = {item.id, x}}
     IN  /\ {last.ret[i].item.id : i \in 1..Len(last.ret)} =
              {kb.items[i].id : i \in {j \in 1..Len(kb.items) : Joining(kb.items[j]) # {}}}
         /\ \A i \in 1..Len(last.ret) :
               \E rel \in Joining(last.ret[i].item) :
                  LET score == last.ret[i].relevanceScore
                      base == TagAndTextScore(last.ret[i].item, last.args[1])
                  IN  score[1] * base[2] * rel.strength[2]
                        = base[1] * rel.strength[1] * score[2]

\* the store that a new PatternStorage over the directory holds after
\* initialize(), the directory being listed in the given order
Reloaded(order) == initialize(constructor(config, files), order, now)

\* C31: whenever the store is initialized, none of its patterns has expired
\* and no file is damaged, a new PatternStorage initialized over the
\* directory holds the same patterns and the same version histories as the
\* store in memory.
C31_RestartHoldsSamePatternsAndHistories ==
  (/\ initialized
   /\ \A i \in 1..Len(patterns) : ~Expired(patterns[i], now) /\ ~Passed(patterns[i], now)
   /\ \A f \in DOMAIN files : files[f].kind # "corrupt") =>
     \A order \in Readdir(files) :
        /\ ~Reloaded(order).threw
        /\ {Reloaded(order).s.patterns[i] : i \in 1..Len(Reloaded(order).s.patterns)}
             = {patterns[i] : i \in 1..Len(patterns)}
        /\ \A id \in MapKeys(patterns) \cup DOMAIN versions \cup DOMAIN Reloaded(order).s.versions :
              History(Reloaded(order).s.versions, id) = History(versions, id)

\* C32: initialize() over a directory with a damaged file completes, and
\* loads every persisted pattern that has not expired, with the history that
\* its versions file holds.
C32_InitializeSkipsDamagedRecord ==
  [][(/\ last'.op = "initialize"
      /\ ~initialized
      /\ \E f \in DOMAIN files : files[f].kind = "corrupt") =>
       /\ ~last'.threw
       /\ initialized'
       /\ \A p \in {q \in Persisted : ~Passed(q, now)} :
             /\ MapHas(patterns', p.id)
             /\ MapGet(patterns', p.id) = p
             /\ \A f \in DOMAIN files :
                   (f = getVersionsFilePath(p.id) /\ files[f].kind = "versions") =>
                      History(versions', p.id) = files[f].json]_vars

\* C34: on an initialized store, updatePattern and restorePattern of an id
\* that is not a pattern, and restorePattern of a version that is not in the
\* history of the id, return null, throw nothing and leave the patterns, the
\* version histories and the files as they were; on an initialized
\* KnowledgeBase, updateKnowledge of an id that is not an item returns null
\* and removeKnowledge of it returns false, and they throw nothing and leave
\* the items, the relationships and the files as they were.
C34_LookupMissChangesNothing ==
  [][/\ ( /\ last'.op \in {"updatePattern", "restorePattern"}
          /\ initialized
          /\ \/ ~MapHas(patterns, last'.args[1])
             \/ /\ last'.op = "restorePattern"
                /\ Find(History(versions, last'.args[1]), last'.args[2]) = <<>> )
        => /\ ~last'.threw
           /\ last'.ret = <<>>
           /\ Store' = Store
     /\ ( /\ last'.op \in {"updateKnowledge", "removeKnowledge"}
          /\ kb.initialized
          /\ ~MapHas(kb.items, last'.args[1]) )
        => /\ ~last'.threw
           /\ last'.ret = IF last'.op = "removeKnowledge" THEN <<FALSE>> ELSE <<>>
           /\ kb' = kb]_vars

\* a restorePattern of a version that is not in the history of a pattern
\* that has one returned null, on a store next to a KnowledgeBase that holds
\* items
C34_Witness ==
  /\ last.op = "restorePattern"
  /\ ~last.threw
  /\ last.ret = <<>>
  /\ initialized
  /\ MapHas(patterns, last.args[1])
  /\ History(versions, last.args[1]) # <<>>
  /\ Find(History(versions, last.args[1]), last.args[2]) = <<>>
  /\ kb.initialized
  /\ kb.items # <<>>

\* C38: with persistence enabled, an initialized KnowledgeBase never holds
\* more than maxItems items, also when addKnowledge is called while other
\* addKnowledge calls wait for the removal of the file of an evicted item or
\* for the write of the file of their item.
C38_OverlappingAddsStayWithinMaxItems ==
  (kb.initialized /\ kb.config.enablePersistence /\ kb.config.maxItems >= 1)
    => Cardinality(MapKeys(kb.items)) <= kb.config.maxItems

====
